---------------------------- MODULE Spec2Model ----------------------------
(***************************************************************************)
(* EcoBridge native core (ecobridge-rust): a state-machine model of the    *)
(* persistence layer (storage/mod.rs), of the boundary panic barrier       *)
(* (lib.rs), of the transfer regulator (security/regulator.rs), of the PID *)
(* controller (economy/control.rs), of the in-memory aggregator            *)
(* (economy/summation.rs), of the weekend factor (economy/environment.rs)  *)
(* and of tier pricing (economy/pricing.rs).                               *)
(*                                                                         *)
(* Conventions                                                             *)
(*  - Timestamps are milliseconds, as in the source.  TLC integers are 32  *)
(*    bit, so the model's wall clock and timestamps are small values; the  *)
(*    constants keep the source's values.                                  *)
(*  - A Vec / table that can hold several hundred thousand entries is kept *)
(*    run-length encoded: a sequence of runs [.., n |-> count], the run    *)
(*    standing for n equal consecutive entries.  Length, push, drain and   *)
(*    indexing are defined on that encoding and mean what they mean on the *)
(*    expanded sequence.                                                   *)
(*  - An f64 sum of exponentially weighted terms is kept symbolic: the     *)
(*    sequence of its terms (coefficient, age).  exp() is positive, so the *)
(*    sign of every coefficient decides the sign of the sum.               *)
(*  - lib.rs calls economy::summation::hydrate_hot_store (after init_db   *)
(*    returned 0) and economy::summation::append_trade_to_memory (before   *)
(*    log_economy_event); neither function is defined in the sources, and  *)
(*    the actions below cover storage::init_economy_db and                 *)
(*    storage::log_economy_event only.                                     *)
(***************************************************************************)
EXTENDS Integers, Sequences, FiniteSets, TLC

\* ------------------------------------------------------------------
\* Program constants (storage/mod.rs, economy/summation.rs)
\* ------------------------------------------------------------------
HIST_LIMIT == 500000
keep == 400000
pool_size == 4
HYDRATE_DAYS == 90
ms_per_day == 86400000
LOOKBACK_FACTOR == 3
MAX_FUTURE_TOLERANCE == 60000
TAIL_FACTOR == 10
SHUTDOWN_TS == -1

\* ------------------------------------------------------------------
\* Bounds of the model
\* ------------------------------------------------------------------
\* slots of the log channel (bounded(50_000) in the source)
ChannelCap == 2
\* events coalesced per batch (1024 in the source)
BatchCap == 2
\* boundary calls the host makes in one behaviour of Spec
MaxOps == 3
\* boundary calls the host makes in one behaviour of SpecQueue
MaxQueueOps == 4

\* host threads that call the boundary
Threads == {"h1", "h2"}
NoThread == "none"

\* wall clock of the model (ms); every model timestamp is near it
WallNow == 1000000000
\* <<ts, trade_amount>> pairs the host passes to log_event
LogArgs == {<<WallNow, 7>>, <<WallNow, -5>>, <<SHUTDOWN_TS, 7>>}

\* ------------------------------------------------------------------
\* Run-length encoded sequences
\* ------------------------------------------------------------------
RECURSIVE RunsLen(_)
RunsLen(rs) == IF rs = <<>> THEN 0 ELSE Head(rs).n + RunsLen(Tail(rs))

\* the entry at position i (1-based) of the expanded sequence, without its count
RECURSIVE RunsAt(_, _)
RunsAt(rs, i) ==
    IF i <= Head(rs).n THEN [ts |-> Head(rs).ts, amount |-> Head(rs).amount]
    ELSE RunsAt(Tail(rs), i - Head(rs).n)

\* Vec::push of one entry
RunsPush(rs, ts, amount) ==
    IF rs # <<>> /\ rs[Len(rs)].ts = ts /\ rs[Len(rs)].amount = amount
    THEN [rs EXCEPT ![Len(rs)].n = @ + 1]
    ELSE Append(rs, [ts |-> ts, amount |-> amount, n |-> 1])

\* n pushes of the same entry
RunsPushN(rs, ts, amount, n) ==
    IF n = 0 THEN rs
    ELSE IF rs # <<>> /\ rs[Len(rs)].ts = ts /\ rs[Len(rs)].amount = amount
    THEN [rs EXCEPT ![Len(rs)].n = @ + n]
    ELSE Append(rs, [ts |-> ts, amount |-> amount, n |-> n])

\* Vec::drain(0..k): the expanded sequence without its first k entries
RECURSIVE RunsDrain(_, _)
RunsDrain(rs, k) ==
    IF k = 0 \/ rs = <<>> THEN rs
    ELSE IF Head(rs).n <= k THEN RunsDrain(Tail(rs), k - Head(rs).n)
    ELSE <<[Head(rs) EXCEPT !.n = @ - k]>> \o Tail(rs)


\* ------------------------------------------------------------------
\* State of the persistence layer (storage/mod.rs)
\* ------------------------------------------------------------------
VARIABLES
    hist,       \* GLOBAL_HISTORY: runs [ts, amount, n]
    cold,       \* table economy_log in insertion order: runs [ts, uuid, delta, meta, n]
    logSender,  \* LOG_SENDER: NoThread, or the thread whose init stored its tx
    readPool,   \* READ_POOL: NoThread, or the thread whose init stored its pool
    poolAvail,  \* connections waiting in READ_POOL's channel
    poolInit,   \* connections cloned into READ_POOL's channel when it was set
    chan,       \* chan[t]: the log channel created by t's init, oldest first
    txLive,     \* txLive[t]: a Sender of chan[t] still exists
    wpc,        \* wpc[t]: position of the writer thread spawned by t's init
    buf,        \* buf[t]: that writer's batch buffer
    total,      \* TOTAL_LOGS
    dropped,    \* DROPPED_LOGS
    pc,         \* pc[t]: position of host thread t inside a boundary call
    cur,        \* cur[t]: arguments and locals of t's call in progress
    ret,        \* ret[t]: t's last completed call and what it returned
    seq,        \* seq[t]: log_event calls with non-null strings t has made
    ops,        \* boundary calls started so far
    initDone,   \* some init_db call has returned 0
    shutOk,     \* some shutdown_db call has returned 0
    panicCounter, \* PANIC_COUNTER (lib.rs)
    budget,     \* boundary calls the host makes in this behaviour (never changes)
    ffi,        \* the last boundary call seen at the panic barrier and how it ended
    xfer,       \* the pointers handed to ecobridge_compute_transfer_check
    result,     \* the TransferResult it returned
    pid,        \* the PidState the host owns (NullPtr: none allocated)
    pidCall,    \* the last PID boundary call: arguments, value returned
    pidSteps,   \* PID boundary calls made so far
    neffIn,     \* history, query time and tau handed to the aggregator
    neffOut,    \* what the aggregator's paths made of them
    pureIn,     \* arguments of a call of a stateless entry point
    pureOut     \* what the call returned

storageVars == <<hist, cold, logSender, readPool, poolAvail, poolInit, chan, txLive,
                 wpc, buf, total, dropped, pc, cur, ret, seq, ops, initDone, shutOk,
                 panicCounter, budget>>
auxVars == <<ffi, xfer, result, pid, pidCall, pidSteps, neffIn, neffOut, pureIn, pureOut>>

\* the LogEvent that shutdown_db_internal sends
ShutdownEvent == [ts |-> SHUTDOWN_TS, uuid |-> "", delta |-> 0, meta |-> 0]

Idle(t) == pc[t] = "idle"

\* ------------------------------------------------------------------
\* Cold store queries
\* ------------------------------------------------------------------
\* ts > now - days * 86_400_000, computed on the day count: x < d*D iff x \div D < d
NewerThanDays(ts, now, days) == ((now - ts) \div ms_per_day) < days

RECURSIVE SelectRows(_, _, _)
SelectRows(rows, now, days) ==
    IF rows = <<>> THEN <<>>
    ELSE IF NewerThanDays(Head(rows).ts, now, days)
         THEN <<Head(rows)>> \o SelectRows(Tail(rows), now, days)
         ELSE SelectRows(Tail(rows), now, days)

\* ORDER BY ts ASC (rows of equal ts keep their insertion order)
RECURSIVE InsertByTs(_, _)
InsertByTs(sorted, r) ==
    IF sorted = <<>> THEN <<r>>
    ELSE IF Head(sorted).ts <= r.ts THEN <<Head(sorted)>> \o InsertByTs(Tail(sorted), r)
    ELSE <<r>> \o sorted

RECURSIVE OrderByTs(_)
OrderByTs(rows) ==
    IF rows = <<>> THEN <<>>
    ELSE InsertByTs(OrderByTs(SubSeq(rows, 1, Len(rows) - 1)), rows[Len(rows)])

RECURSIVE PushRows(_, _)
PushRows(h, rows) ==
    IF rows = <<>> THEN h
    ELSE PushRows(RunsPushN(h, Head(rows).ts, Head(rows).delta, Head(rows).n), Tail(rows))

\* load_recent_history_to_memory: every row newer than 90 days, ascending, pushed
\* onto GLOBAL_HISTORY under one write lock; no length check
load_recent_history_to_memory(h, rows) ==
    PushRows(h, OrderByTs(SelectRows(rows, WallNow, HYDRATE_DAYS)))

Abs(x) == IF x < 0 THEN -x ELSE x

\* SELECT SUM(ABS(delta) * EXP(-(?1 - ts) / (?2 * 86400000))) FROM economy_log
\* WHERE ts > ?3, with ?3 = current_ts - (tau * ms_per_day * 3) as i64.
\* The sum is kept as its terms; no row selected gives NULL, read as 0.0 (no term).
RECURSIVE DbTerms(_, _, _)
DbTerms(rows, current_ts, min_ts) ==
    IF rows = <<>> THEN <<>>
    ELSE IF Head(rows).ts > min_ts
         THEN <<[coef |-> Abs(Head(rows).delta) * Head(rows).n,
                 age |-> current_ts - Head(rows).ts]>>
              \o DbTerms(Tail(rows), current_ts, min_ts)
         ELSE DbTerms(Tail(rows), current_ts, min_ts)

query_neff_sql(rows, current_ts, tau) ==
    DbTerms(rows, current_ts, current_ts - tau * ms_per_day * LOOKBACK_FACTOR)

\* is_valid_record of calculate_volume_in_memory: the window of a Neff query
is_valid_record(ts, current_time, tau) ==
    LET valid_future_limit == current_time + MAX_FUTURE_TOLERANCE
        valid_past_limit == current_time - tau * ms_per_day * TAIL_FACTOR
    IN  ts <= valid_future_limit /\ ts >= valid_past_limit

\* sign of a symbolic sum: exp() > 0, so the coefficients decide
SumPositive(s) ==
    /\ \A i \in 1..Len(s) : s[i].coef >= 0
    /\ \E i \in 1..Len(s) : s[i].coef > 0


\* ------------------------------------------------------------------
\* log_event: ecobridge_log_to_duckdb -> storage::log_economy_event
\* ------------------------------------------------------------------
\* entries the prune removes once the push has made the length len
remove_count(len) == IF len > HIST_LIMIT THEN len - keep ELSE 0

\* variant: the prune drains a fixed HIST_LIMIT - keep entries
HistAppendFixedDrain(h, ts, delta) ==
    LET pushed == RunsPush(h, ts, delta)
    IN  RunsDrain(pushed, IF RunsLen(pushed) > HIST_LIMIT THEN HIST_LIMIT - keep ELSE 0)

\* the write-lock critical section: push, then drain(0..remove_count)
HistAppend(h, ts, delta) ==
    LET pushed == RunsPush(h, ts, delta)
    IN  RunsDrain(pushed, remove_count(RunsLen(pushed)))

\* what try_send does to the queue q of capacity ChannelCap whose receiver is
\* alive or not: <<accepted, queue after>>
try_send(q, rxAlive, ev) ==
    IF rxAlive /\ Len(q) < ChannelCap THEN <<TRUE, Append(q, ev)>> ELSE <<FALSE, q>>

RxAlive(w) == wpc[w] \notin {"none", "exited"}

\* a call with a null uuid or meta pointer does nothing
LogNull(t) ==
    /\ Idle(t) /\ ops < budget
    /\ ops' = ops + 1
    /\ ret' = [ret EXCEPT ![t] = [op |-> "log_null"]]
    /\ UNCHANGED <<hist, cold, logSender, readPool, poolAvail, poolInit, chan, txLive,
                   wpc, buf, total, dropped, pc, cur, seq, initDone, shutOk, panicCounter>>

\* TOTAL_LOGS.fetch_add(1), then the push and the prune under the write lock
LogEvent(t, ts, delta) ==
    /\ Idle(t) /\ ops < budget
    /\ ops' = ops + 1
    /\ total' = total + 1
    /\ seq' = [seq EXCEPT ![t] = @ + 1]
    /\ hist' = HistAppend(hist, ts, delta)
    /\ cur' = [cur EXCEPT ![t] =
                 [op |-> "log",
                  ev |-> [ts |-> ts, uuid |-> t, delta |-> delta, meta |-> seq[t] + 1],
                  removed |-> remove_count(RunsLen(hist) + 1)]]
    /\ pc' = [pc EXCEPT ![t] = "log_send"]
    /\ UNCHANGED <<cold, logSender, readPool, poolAvail, poolInit, chan, txLive,
                   wpc, buf, dropped, ret, initDone, shutOk, panicCounter>>

\* variant: a refused event is not counted in DROPPED_LOGS
LogSendUncounted(t) ==
    /\ pc[t] = "log_send"
    /\ LET sent == IF logSender = NoThread THEN <<FALSE, <<>>>>
                   ELSE try_send(chan[logSender], RxAlive(logSender), cur[t].ev)
       IN  /\ chan' = IF sent[1] THEN [chan EXCEPT ![logSender] = sent[2]] ELSE chan
           /\ dropped' = dropped
           /\ ret' = [ret EXCEPT ![t] =
                        [op |-> "log", ev |-> cur[t].ev, sent |-> sent[1],
                         removed |-> cur[t].removed]]
    /\ pc' = [pc EXCEPT ![t] = "idle"]
    /\ cur' = [cur EXCEPT ![t] = [op |-> "none"]]
    /\ UNCHANGED <<hist, cold, logSender, readPool, poolAvail, poolInit, txLive,
                   wpc, buf, total, seq, ops, initDone, shutOk, panicCounter>>

\* LOG_SENDER.get(), try_send, DROPPED_LOGS.fetch_add(1) when it is refused or
\* when there is no sender
LogSend(t) ==
    /\ pc[t] = "log_send"
    /\ LET sent == IF logSender = NoThread THEN <<FALSE, <<>>>>
                   ELSE try_send(chan[logSender], RxAlive(logSender), cur[t].ev)
       IN  /\ chan' = IF sent[1] THEN [chan EXCEPT ![logSender] = sent[2]] ELSE chan
           /\ dropped' = IF sent[1] THEN dropped ELSE dropped + 1
           /\ ret' = [ret EXCEPT ![t] =
                        [op |-> "log", ev |-> cur[t].ev, sent |-> sent[1],
                         removed |-> cur[t].removed]]
    /\ pc' = [pc EXCEPT ![t] = "idle"]
    /\ cur' = [cur EXCEPT ![t] = [op |-> "none"]]
    /\ UNCHANGED <<hist, cold, logSender, readPool, poolAvail, poolInit, txLive,
                   wpc, buf, total, seq, ops, initDone, shutOk, panicCounter>>

\* ------------------------------------------------------------------
\* shutdown_db: ecobridge_shutdown_db -> storage::shutdown_db_internal
\* ------------------------------------------------------------------
\* sender.send blocks while the queue is full and its receiver is alive
Shutdown(t) ==
    /\ Idle(t) /\ ops < budget
    /\ logSender # NoThread =>
          ~(RxAlive(logSender) /\ Len(chan[logSender]) >= ChannelCap)
    /\ ops' = ops + 1
    /\ LET ok == logSender # NoThread /\ RxAlive(logSender)
       IN  /\ chan' = IF ok THEN [chan EXCEPT ![logSender] = Append(@, ShutdownEvent)]
                      ELSE chan
           /\ ret' = [ret EXCEPT ![t] = [op |-> "shutdown", code |-> IF ok THEN 0 ELSE -1]]
           /\ shutOk' = (shutOk \/ ok)
    /\ UNCHANGED <<hist, cold, logSender, readPool, poolAvail, poolInit, txLive,
                   wpc, buf, total, dropped, pc, cur, seq, initDone, panicCounter>>

\* ------------------------------------------------------------------
\* The cold writer thread: writer_loop, flush_buffer_to_db
\* ------------------------------------------------------------------
\* rx.recv(): the oldest message; Err once the queue is empty and no Sender is
\* left; blocks otherwise.  The sentinel leaves the loop.
WriterRecv(w) ==
    /\ wpc[w] = "recv"
    /\ \/ /\ chan[w] # <<>>
          /\ chan' = [chan EXCEPT ![w] = Tail(@)]
          /\ IF Head(chan[w]).ts = SHUTDOWN_TS
             THEN /\ wpc' = [wpc EXCEPT ![w] = "final"]
                  /\ buf' = buf
             ELSE /\ wpc' = [wpc EXCEPT ![w] = "try_recv"]
                  /\ buf' = [buf EXCEPT ![w] = Append(@, Head(chan[w]))]
       \/ /\ chan[w] = <<>> /\ ~txLive[w]
          /\ wpc' = [wpc EXCEPT ![w] = "final"]
          /\ UNCHANGED <<chan, buf>>
    /\ UNCHANGED <<hist, cold, logSender, readPool, poolAvail, poolInit, txLive,
                   total, dropped, pc, cur, ret, seq, ops, initDone, shutOk, panicCounter>>

\* one turn of `while buffer.len() < 1024 { match rx.try_recv() ... }`: the
\* sentinel, an empty queue and a full buffer each leave the inner loop only
WriterTryRecv(w) ==
    /\ wpc[w] = "try_recv"
    /\ IF Len(buf[w]) < BatchCap /\ chan[w] # <<>>
       THEN /\ chan' = [chan EXCEPT ![w] = Tail(@)]
            /\ IF Head(chan[w]).ts = SHUTDOWN_TS
               THEN /\ wpc' = [wpc EXCEPT ![w] = "flush"]
                    /\ buf' = buf
               ELSE /\ buf' = [buf EXCEPT ![w] = Append(@, Head(chan[w]))]
                    /\ wpc' = wpc
       ELSE /\ wpc' = [wpc EXCEPT ![w] = "flush"]
            /\ UNCHANGED <<chan, buf>>
    /\ UNCHANGED <<hist, cold, logSender, readPool, poolAvail, poolInit, txLive,
                   total, dropped, pc, cur, ret, seq, ops, initDone, shutOk, panicCounter>>

\* variant: the batch is written newest first
RECURSIVE WrittenNewestFirst(_, _, _)
WrittenNewestFirst(b, bad, i) ==
    IF i > Len(b) THEN <<>>
    ELSE WrittenNewestFirst(b, bad, i + 1)
         \o (IF i \in bad THEN <<>>
             ELSE <<[ts |-> b[i].ts, uuid |-> b[i].uuid, delta |-> b[i].delta,
                     meta |-> b[i].meta, n |-> 1]>>)

\* the rows of the batch b whose append_row succeeds, in the order written
RECURSIVE Written(_, _, _)
Written(b, bad, i) ==
    IF i > Len(b) THEN <<>>
    ELSE (IF i \in bad THEN <<>>
          ELSE <<[ts |-> b[i].ts, uuid |-> b[i].uuid, delta |-> b[i].delta,
                  meta |-> b[i].meta, n |-> 1]>>)
         \o Written(b, bad, i + 1)

\* flush_buffer_to_db: the batch is appended in buffer order; every row whose
\* append_row fails (bad) is counted in DROPPED_LOGS; a failed appender counts
\* the whole batch
flush_buffer_to_db(w, bad) ==
    /\ cold' = cold \o Written(buf[w], bad, 1)
    /\ dropped' = dropped + Cardinality(bad)
    /\ buf' = [buf EXCEPT ![w] = <<>>]

WriterFlush(w) ==
    /\ wpc[w] = "flush"
    /\ \/ \E bad \in SUBSET (1..Len(buf[w])) : flush_buffer_to_db(w, bad)
       \/ flush_buffer_to_db(w, 1..Len(buf[w]))
    /\ wpc' = [wpc EXCEPT ![w] = "recv"]
    /\ UNCHANGED <<hist, logSender, readPool, poolAvail, poolInit, chan, txLive,
                   total, pc, cur, ret, seq, ops, initDone, shutOk, panicCounter>>

\* after the loop: flush what the buffer still holds, drop rx and the connection
WriterExit(w) ==
    /\ wpc[w] = "final"
    /\ IF buf[w] # <<>>
       THEN \E bad \in SUBSET (1..Len(buf[w])) : flush_buffer_to_db(w, bad)
       ELSE UNCHANGED <<cold, dropped, buf>>
    /\ wpc' = [wpc EXCEPT ![w] = "exited"]
    /\ UNCHANGED <<hist, logSender, readPool, poolAvail, poolInit, chan, txLive,
                   total, pc, cur, ret, seq, ops, initDone, shutOk, panicCounter>>


\* ------------------------------------------------------------------
\* init_db: ecobridge_init_db -> storage::init_economy_db
\* ------------------------------------------------------------------
\* what the host passes as the path pointer
InitPaths == {"null", "non_utf8", "ok"}
\* connections write_conn.try_clone() yields out of pool_size attempts
CloneOutcomes == {0, 1, pool_size}

Return(t, r) ==
    /\ ret' = [ret EXCEPT ![t] = r]
    /\ pc' = [pc EXCEPT ![t] = "idle"]
    /\ cur' = [cur EXCEPT ![t] = [op |-> "none"]]

\* the code init_economy_db returns when LOG_SENDER is already set on entry
already_init_code == 0

\* lib.rs: null path -1, non-UTF-8 path -2; init_economy_db: LOG_SENDER already
\* set returns at once, else the call goes on to open the database
InitCall(t, path) ==
    /\ Idle(t) /\ ops < budget
    /\ ops' = ops + 1
    /\ IF path = "null" THEN
          Return(t, [op |-> "init", code |-> -1, afterInit |-> initDone, performed |-> FALSE])
       ELSE IF path = "non_utf8" THEN
          Return(t, [op |-> "init", code |-> -2, afterInit |-> initDone, performed |-> FALSE])
       ELSE IF logSender # NoThread THEN
          Return(t, [op |-> "init", code |-> already_init_code, afterInit |-> initDone,
                     performed |-> FALSE])
       ELSE /\ pc' = [pc EXCEPT ![t] = "init_open"]
            /\ cur' = [cur EXCEPT ![t] = [op |-> "init", afterInit |-> initDone]]
            /\ ret' = ret
    /\ UNCHANGED <<hist, cold, logSender, readPool, poolAvail, poolInit, chan, txLive,
                   wpc, buf, total, dropped, seq, initDone, shutOk, panicCounter>>

\* Connection::open (Err: -4), the DDL batch (Err: -5), then
\* load_recent_history_to_memory(&write_conn)
InitOpen(t, outcome) ==
    /\ pc[t] = "init_open"
    /\ IF outcome = "open_err" THEN
          /\ Return(t, [op |-> "init", code |-> -4, afterInit |-> cur[t].afterInit,
                        performed |-> FALSE])
          /\ hist' = hist
       ELSE IF outcome = "ddl_err" THEN
          /\ Return(t, [op |-> "init", code |-> -5, afterInit |-> cur[t].afterInit,
                        performed |-> FALSE])
          /\ hist' = hist
       ELSE /\ hist' = load_recent_history_to_memory(hist, cold)
            /\ pc' = [pc EXCEPT ![t] = "init_pool"]
            /\ UNCHANGED <<cur, ret>>
    /\ UNCHANGED <<cold, logSender, readPool, poolAvail, poolInit, chan, txLive,
                   wpc, buf, total, dropped, seq, ops, initDone, shutOk, panicCounter>>

\* the pool channel is filled with the clones that succeed; READ_POOL.set(..).ok()
\* keeps the first pool; bounded(50_000); the writer thread is spawned
InitPool(t, clones) ==
    /\ pc[t] = "init_pool"
    /\ IF readPool = NoThread
       THEN /\ readPool' = t
            /\ poolAvail' = clones
            /\ poolInit' = clones
       ELSE UNCHANGED <<readPool, poolAvail, poolInit>>
    /\ chan' = [chan EXCEPT ![t] = <<>>]
    /\ txLive' = [txLive EXCEPT ![t] = TRUE]
    /\ wpc' = [wpc EXCEPT ![t] = "recv"]
    /\ pc' = [pc EXCEPT ![t] = "init_set"]
    /\ UNCHANGED <<hist, cold, logSender, buf, total, dropped, cur, ret, seq, ops,
                   initDone, shutOk, panicCounter>>

\* LOG_SENDER.set(tx): Ok 0; Err -7, and the tx handed back is dropped
InitSet(t) ==
    /\ pc[t] = "init_set"
    /\ IF logSender = NoThread
       THEN /\ logSender' = t
            /\ txLive' = txLive
            /\ initDone' = TRUE
            /\ Return(t, [op |-> "init", code |-> 0, afterInit |-> cur[t].afterInit,
                          performed |-> TRUE])
       ELSE /\ logSender' = logSender
            /\ txLive' = [txLive EXCEPT ![t] = FALSE]
            /\ initDone' = initDone
            /\ Return(t, [op |-> "init", code |-> -7, afterInit |-> cur[t].afterInit,
                          performed |-> FALSE])
    /\ UNCHANGED <<hist, cold, readPool, poolAvail, poolInit, chan, wpc, buf, total,
                   dropped, seq, ops, shutOk, panicCounter>>


\* ------------------------------------------------------------------
\* query_neff: ecobridge_query_neff_vectorized -> summation::query_neff_internal
\*             -> storage::query_neff_from_db
\* ------------------------------------------------------------------
\* decay horizons (days) the host queries with
QueryTaus == {1}
\* how the body ends once it holds a connection
QueryOutcomes == {"ok", "sql_err", "panic"}

\* the event of t's last completed call when that was a log_event, else none
NoEvent == [ts |-> 0, uuid |-> NoThread, delta |-> 0, meta |-> 0]
JustLogged(t) == IF ret[t].op = "log" THEN ret[t].ev ELSE NoEvent
\* ... and whether the log channel accepted it
JustQueued(t) == ret[t].op = "log" /\ ret[t].sent

\* READ_POOL.get(): None returns 0.0
QueryCall(t, current_ts, tau) ==
    /\ Idle(t) /\ ops < budget
    /\ ops' = ops + 1
    /\ IF readPool = NoThread
       THEN Return(t, [op |-> "query", sum |-> <<>>, current_ts |-> current_ts,
                       tau |-> tau, prev |-> JustLogged(t), prevQueued |-> JustQueued(t),
                       status |-> "no_pool"])
       ELSE /\ pc' = [pc EXCEPT ![t] = "query_recv"]
            /\ cur' = [cur EXCEPT ![t] = [op |-> "query", current_ts |-> current_ts,
                                          tau |-> tau, prev |-> JustLogged(t),
                                          prevQueued |-> JustQueued(t)]]
            /\ ret' = ret
    /\ UNCHANGED <<hist, cold, logSender, readPool, poolAvail, poolInit, chan, txLive,
                   wpc, buf, total, dropped, seq, initDone, shutOk, panicCounter>>

\* pool.available.recv(): blocks while the pool channel is empty
QueryRecv(t) ==
    /\ pc[t] = "query_recv"
    /\ poolAvail > 0
    /\ poolAvail' = poolAvail - 1
    /\ pc' = [pc EXCEPT ![t] = "query_run"]
    /\ UNCHANGED <<hist, cold, logSender, readPool, poolInit, chan, txLive, wpc, buf,
                   total, dropped, cur, ret, seq, ops, initDone, shutOk, panicCounter>>

\* Drop for DbConnectionGuard: the connection goes back to the pool's channel
guard_drop(avail) == avail + 1

\* the SQL aggregate under the guard; an Err is read as 0.0; a panic unwinds
\* through the guard and is caught by ffi_guard (fallback 0.0)
QueryRun(t, outcome) ==
    /\ pc[t] = "query_run"
    /\ poolAvail' = guard_drop(poolAvail)
    /\ panicCounter' = IF outcome = "panic" THEN panicCounter + 1 ELSE panicCounter
    /\ Return(t, [op |-> "query",
                  sum |-> IF outcome = "ok"
                          THEN query_neff_sql(cold, cur[t].current_ts, cur[t].tau)
                          ELSE <<>>,
                  current_ts |-> cur[t].current_ts, tau |-> cur[t].tau,
                  prev |-> cur[t].prev, prevQueued |-> cur[t].prevQueued,
                  status |-> outcome])
    /\ UNCHANGED <<hist, cold, logSender, readPool, poolInit, chan, txLive, wpc, buf,
                   total, dropped, seq, ops, initDone, shutOk>>

\* ------------------------------------------------------------------
\* storage::load_recent_history(days)
\* ------------------------------------------------------------------
LoadDays == {HYDRATE_DAYS}
LoadOutcomes == {"ok", "prepare_err"}

RECURSIVE AbsRows(_)
AbsRows(rows) ==
    IF rows = <<>> THEN <<>>
    ELSE <<[ts |-> Head(rows).ts, amount |-> Abs(Head(rows).delta), n |-> Head(rows).n]>>
         \o AbsRows(Tail(rows))

LoadCall(t, days) ==
    /\ Idle(t) /\ ops < budget
    /\ ops' = ops + 1
    /\ IF readPool = NoThread
       THEN Return(t, [op |-> "load", rows |-> <<>>, panicked |-> FALSE])
       ELSE /\ pc' = [pc EXCEPT ![t] = "load_recv"]
            /\ cur' = [cur EXCEPT ![t] = [op |-> "load", days |-> days]]
            /\ ret' = ret
    /\ UNCHANGED <<hist, cold, logSender, readPool, poolAvail, poolInit, chan, txLive,
                   wpc, buf, total, dropped, seq, initDone, shutOk, panicCounter>>

LoadRecv(t) ==
    /\ pc[t] = "load_recv"
    /\ poolAvail > 0
    /\ poolAvail' = poolAvail - 1
    /\ pc' = [pc EXCEPT ![t] = "load_run"]
    /\ UNCHANGED <<hist, cold, logSender, readPool, poolInit, chan, txLive, wpc, buf,
                   total, dropped, cur, ret, seq, ops, initDone, shutOk, panicCounter>>

\* raw_conn is a plain local: `pool.recycle.send(raw_conn)` is the last statement,
\* and prepare(..).unwrap() / query_map(..).unwrap() panic before it on an Err, which
\* drops (closes) the connection
LoadRun(t, outcome) ==
    /\ pc[t] = "load_run"
    /\ IF outcome = "ok"
       THEN /\ poolAvail' = poolAvail + 1
            /\ Return(t, [op |-> "load", panicked |-> FALSE,
                          rows |-> AbsRows(OrderByTs(SelectRows(cold, WallNow, cur[t].days)))])
       ELSE /\ poolAvail' = poolAvail
            /\ Return(t, [op |-> "load", rows |-> <<>>, panicked |-> TRUE])
    /\ UNCHANGED <<hist, cold, logSender, readPool, poolInit, chan, txLive, wpc, buf,
                   total, dropped, seq, ops, initDone, shutOk, panicCounter>>

\* ------------------------------------------------------------------
\* Specification of the persistence layer
\* ------------------------------------------------------------------
\* rows an earlier run of the process left in the table
OldRow(n) == [ts |-> WallNow - ms_per_day, uuid |-> "old", delta |-> 3, meta |-> 0, n |-> n]

StorageInit(coldStores, calls) ==
    /\ budget = calls
    /\ hist = <<>>
    /\ cold \in coldStores
    /\ logSender = NoThread
    /\ readPool = NoThread
    /\ poolAvail = 0
    /\ poolInit = 0
    /\ chan = [t \in Threads |-> <<>>]
    /\ txLive = [t \in Threads |-> FALSE]
    /\ wpc = [t \in Threads |-> "none"]
    /\ buf = [t \in Threads |-> <<>>]
    /\ total = 0
    /\ dropped = 0
    /\ pc = [t \in Threads |-> "idle"]
    /\ cur = [t \in Threads |-> [op |-> "none"]]
    /\ ret = [t \in Threads |-> [op |-> "none"]]
    /\ seq = [t \in Threads |-> 0]
    /\ ops = 0
    /\ initDone = FALSE
    /\ shutOk = FALSE
    /\ panicCounter = 0

NoCall == [entry |-> "none", outcome |-> "none", value |-> "none"]
NullPtr == [null |-> TRUE]
NoResult == [final_tax |-> 0, is_blocked |-> -1, warning_code |-> -1]
NoPidCall == [op |-> "none"]
NoNeff == [done |-> FALSE]
NoPure == [op |-> "none"]
PureIdle == pureIn = NoPure /\ pureOut = NoPure
NeffIdle ==
    /\ neffIn = [history |-> <<>>, current_time |-> 0, tau |-> 0]
    /\ neffOut = NoNeff
AuxIdle ==
    /\ ffi = NoCall /\ xfer = [ctx |-> NullPtr, cfg |-> NullPtr] /\ result = NoResult
    /\ pid = NullPtr /\ pidCall = NoPidCall /\ pidSteps = 0
    /\ NeffIdle
    /\ PureIdle

vars == <<storageVars, auxVars>>

Init == StorageInit({<<>>, <<OldRow(1)>>}, MaxOps) /\ AuxIdle

HostNext ==
    \E t \in Threads :
        \/ \E path \in InitPaths : InitCall(t, path)
        \/ \E outcome \in {"open_err", "ddl_err", "ok"} : InitOpen(t, outcome)
        \/ \E clones \in CloneOutcomes : InitPool(t, clones)
        \/ InitSet(t)
        \/ LogNull(t)
        \/ \E a \in LogArgs : LogEvent(t, a[1], a[2])
        \/ LogSend(t)
        \/ Shutdown(t)
        \/ \E tau \in QueryTaus : QueryCall(t, WallNow, tau)
        \/ QueryRecv(t)
        \/ \E outcome \in QueryOutcomes : QueryRun(t, outcome)
        \/ \E days \in LoadDays : LoadCall(t, days)
        \/ LoadRecv(t)
        \/ \E outcome \in LoadOutcomes : LoadRun(t, outcome)

WriterNext ==
    \E w \in Threads :
        \/ WriterRecv(w)
        \/ WriterTryRecv(w)
        \/ WriterFlush(w)
        \/ WriterExit(w)

Next == (HostNext \/ WriterNext) /\ UNCHANGED <<budget, auxVars>>

Spec == Init /\ [][Next]_vars

\* the log path alone: init_db, log_event, shutdown_db and the writer
InitQueue == StorageInit({<<>>}, MaxQueueOps) /\ AuxIdle

QueueNext ==
    /\ \/ \E t \in Threads :
             \/ InitCall(t, "ok")
             \/ InitOpen(t, "ok")
             \/ InitPool(t, pool_size)
             \/ InitSet(t)
             \/ \E a \in LogArgs : LogEvent(t, a[1], a[2])
             \/ LogSend(t)
             \/ Shutdown(t)
       \/ WriterNext
    /\ UNCHANGED <<budget, auxVars>>

SpecQueue == InitQueue /\ [][QueueNext]_vars


\* the cold writer and every call in progress keep running (preemptive OS threads)
WriterOf(w) ==
    (WriterRecv(w) \/ WriterTryRecv(w) \/ WriterFlush(w) \/ WriterExit(w))
    /\ UNCHANGED <<budget, auxVars>>

ContinueQueue(t) ==
    (InitOpen(t, "ok") \/ InitPool(t, pool_size) \/ InitSet(t) \/ LogSend(t))
    /\ UNCHANGED <<budget, auxVars>>

FairSpecQueue ==
    /\ SpecQueue
    /\ \A w \in Threads : WF_vars(WriterOf(w))
    /\ \A t \in Threads : WF_vars(ContinueQueue(t))

\* every call in progress keeps running, and so does the cold writer
Continue(t) ==
    \/ (\E outcome \in {"open_err", "ddl_err", "ok"} : InitOpen(t, outcome))
          /\ UNCHANGED <<budget, auxVars>>
    \/ (\E clones \in CloneOutcomes : InitPool(t, clones)) /\ UNCHANGED <<budget, auxVars>>
    \/ InitSet(t) /\ UNCHANGED <<budget, auxVars>>
    \/ LogSend(t) /\ UNCHANGED <<budget, auxVars>>
    \/ QueryRecv(t) /\ UNCHANGED <<budget, auxVars>>
    \/ (\E outcome \in QueryOutcomes : QueryRun(t, outcome)) /\ UNCHANGED <<budget, auxVars>>
    \/ LoadRecv(t) /\ UNCHANGED <<budget, auxVars>>
    \/ (\E outcome \in LoadOutcomes : LoadRun(t, outcome)) /\ UNCHANGED <<budget, auxVars>>

FairSpec ==
    /\ Spec
    /\ \A w \in Threads : WF_vars(WriterOf(w))
    /\ \A t \in Threads : WF_vars(Continue(t))

\* ------------------------------------------------------------------
\* Hot history near its cap: init_db on a large cold store, then log_event
\* ------------------------------------------------------------------
MaxHistOps == 3

OldRowAt(age, delta, n) ==
    [ts |-> WallNow - age, uuid |-> "old", delta |-> delta, meta |-> 0, n |-> n]

BigColdStores ==
    { <<OldRowAt(2000, 3, 60000), OldRowAt(1000, 4, HIST_LIMIT - 60000)>>,
      <<OldRowAt(1000, 4, 60000), OldRowAt(2000, 3, HIST_LIMIT - 60001)>>,
      <<OldRowAt(2000, 3, HIST_LIMIT + 100000)>> }

InitHist == StorageInit(BigColdStores, MaxHistOps) /\ AuxIdle

HistNext ==
    /\ \/ \E t \in Threads :
             \/ InitCall(t, "ok")
             \/ InitOpen(t, "ok")
             \/ InitPool(t, pool_size)
             \/ InitSet(t)
             \/ \E a \in LogArgs : LogEvent(t, a[1], a[2])
             \/ LogSend(t)
       \/ WriterNext
    /\ UNCHANGED <<budget, auxVars>>

SpecHist == InitHist /\ [][HistNext]_vars

\* ------------------------------------------------------------------
\* The panic barrier (lib.rs): ffi_guard! and the exported entry points
\* ------------------------------------------------------------------
MaxFfiCalls == 3

\* every #[no_mangle] function of lib.rs
EntryPoints ==
    {"abi_version", "version", "init_db", "log_to_duckdb", "get_health_stats",
     "query_neff_vectorized", "compute_price_final", "compute_price_humane",
     "compute_price_bounded", "compute_tier_price", "calculate_epsilon",
     "compute_pid_adjustment", "reset_pid_state", "calc_inflation",
     "calc_stability", "calc_decay", "compute_transfer_check", "shutdown_db"}

\* the entry points whose body is the $body of an ffi_guard! invocation
ffi_guarded(e) == e \notin {"abi_version", "shutdown_db"}

\* the $fallback expression of each ffi_guard! invocation
fallback(e) ==
    CASE e = "version" -> "null"
      [] e = "init_db" -> "-99"
      [] e \in {"log_to_duckdb", "get_health_stats", "reset_pid_state"} -> "()"
      [] e \in {"query_neff_vectorized", "compute_pid_adjustment", "calc_inflation",
                "calc_decay"} -> "0.0"
      [] e \in {"compute_price_final", "compute_price_humane", "compute_price_bounded",
                "compute_tier_price"} -> "base"
      [] e \in {"calculate_epsilon", "calc_stability"} -> "1.0"
      [] e = "compute_transfer_check" -> "TransferResult::error(-999)"
      [] OTHER -> "none"

\* a panic that leaves an extern "C" function: the process aborts, or (older
\* toolchains) the unwind runs into the host's frames
Propagated == {"abort", "unwind_into_host"}

\* ffi_guard!: catch_unwind around the body; Ok(result) => result,
\* Err => PANIC_COUNTER.fetch_add(1) and the fallback
ffi_guard(e, panics) ==
    /\ ffi' = IF panics THEN [entry |-> e, outcome |-> "fallback", value |-> fallback(e)]
                        ELSE [entry |-> e, outcome |-> "returned", value |-> "result"]
    /\ panicCounter' = IF panics THEN panicCounter + 1 ELSE panicCounter

\* an entry point whose body runs without catch_unwind
Unguarded(e, panics) ==
    /\ \/ ~panics /\ ffi' = [entry |-> e, outcome |-> "returned", value |-> "result"]
       \/ panics /\ \E o \in Propagated : ffi' = [entry |-> e, outcome |-> o, value |-> "none"]
    /\ panicCounter' = panicCounter

\* one call of entry point e by the host; whether its body panics is an input
BoundaryCall(e, panics) ==
    /\ ffi.outcome \notin Propagated
    /\ ops < budget
    /\ ops' = ops + 1
    /\ IF ffi_guarded(e) THEN ffi_guard(e, panics) ELSE Unguarded(e, panics)
    /\ UNCHANGED <<hist, cold, logSender, readPool, poolAvail, poolInit, chan, txLive,
                   wpc, buf, total, dropped, pc, cur, ret, seq, initDone, shutOk,
                   budget, xfer, result, pid, pidCall, pidSteps, neffIn, neffOut, pureIn, pureOut>>

InitFfi == StorageInit({<<>>}, MaxFfiCalls) /\ AuxIdle

FfiNext == \E e \in EntryPoints, panics \in BOOLEAN : BoundaryCall(e, panics)

SpecFfi == InitFfi /\ [][FfiNext]_vars

\* ------------------------------------------------------------------
\* The transfer regulator (security/regulator.rs).  Money in whole units, rates
\* and ratios in thousandths, the activity score in hundredths, play time in
\* seconds, hours in hours, taxes in thousandths of a unit.
\* ------------------------------------------------------------------
CODE_NORMAL == 0
CODE_WARNING_HIGH_RISK == 1
CODE_BLOCK_REVERSE_FLOW == 2
CODE_BLOCK_INJECTION == 3
CODE_BLOCK_INSUFFICIENT_FUNDS == 4
CODE_BLOCK_VELOCITY_LIMIT == 5
ERR_NULL_CTX == 671
ERR_NULL_CFG == 672
SECS_PER_HOUR == 3600
LOW_ACTIVITY == 10
TAX_CAP == 800
WARN_VELOCITY_SHARE == 7

Max(a, b) == IF a >= b THEN a ELSE b
Min(a, b) == IF a <= b THEN a ELSE b

TransferContexts ==
    [amount : {-5, 50, 200}, sender_balance : {100, 300}, receiver_balance : {0, 500},
     inflation_rate : {-100, 500}, newbie_limit : {30, 500},
     sender_play_time : {1800, 72000}, receiver_play_time : {1800, 72000},
     sender_activity_score : {5, 50, 100}, sender_velocity : {0, 8, 20}]

RegulatorConfigs ==
    { [base_tax_rate |-> 50, luxury_threshold |-> 150, luxury_tax_rate |-> 100,
       wealth_gap_tax_rate |-> 200, poor_threshold |-> 150, rich_threshold |-> 400,
       newbie_receive_limit |-> 300, warning_ratio |-> 400, warning_min_amount |-> 10,
       newbie_hours |-> 1, veteran_hours |-> 10, velocity_threshold |-> 20],
      [base_tax_rate |-> 400, luxury_threshold |-> 40, luxury_tax_rate |-> 900,
       wealth_gap_tax_rate |-> 0, poor_threshold |-> 150, rich_threshold |-> 400,
       newbie_receive_limit |-> 300, warning_ratio |-> 400, warning_min_amount |-> 10,
       newbie_hours |-> 1, veteran_hours |-> 10, velocity_threshold |-> 20] }

\* TransferResult::error(code)
TransferError(code) == [final_tax |-> 0, is_blocked |-> 1, warning_code |-> code]

\* puppet_factor as a fraction <<numerator, denominator>>: velocity * 2 below an
\* activity of 0.1, otherwise velocity / max(activity, 0.1)
puppet_factor(ctx) ==
    IF ctx.sender_activity_score < LOW_ACTIVITY
    THEN <<ctx.sender_velocity * 2, 1>>
    ELSE <<ctx.sender_velocity * 100, Max(ctx.sender_activity_score, LOW_ACTIVITY)>>

insufficient_funds(ctx) == Max(ctx.amount, 0) > Max(ctx.sender_balance, 0)

velocity_limit(ctx, cfg) ==
    puppet_factor(ctx)[1] > cfg.velocity_threshold * puppet_factor(ctx)[2]

reverse_flow(ctx, cfg) ==
    /\ ctx.sender_play_time < cfg.newbie_hours * SECS_PER_HOUR
    /\ ctx.receiver_play_time > cfg.veteran_hours * SECS_PER_HOUR
    /\ Max(ctx.amount, 0) > ctx.newbie_limit

\* (velocity as f64 * 0.05).exp() in thousandths, for the velocities of TransferContexts
behavioral_penalty(velocity) ==
    CASE velocity = 0 -> 1000
      [] velocity = 8 -> 1492
      [] velocity = 20 -> 2718

\* variant: the tax is returned without the final cap
adaptive_taxUncapped(ctx, cfg) ==
    LET amount == Max(ctx.amount, 0)
        sender_bal == Max(ctx.sender_balance, 0)
        receiver_bal == Max(ctx.receiver_balance, 0)
        inflation_adj == 1000 + Max(ctx.inflation_rate, 0)
        base == (amount * cfg.base_tax_rate * inflation_adj) \div 1000
        penalised == (base * behavioral_penalty(ctx.sender_velocity)) \div 1000
        luxury == IF amount > cfg.luxury_threshold
                  THEN (amount - cfg.luxury_threshold) * cfg.luxury_tax_rate + penalised
                  ELSE penalised
    IN  IF sender_bal < cfg.poor_threshold /\ receiver_bal > cfg.rich_threshold
        THEN Max(luxury, amount * cfg.wealth_gap_tax_rate)
        ELSE luxury

adaptive_tax(ctx, cfg) ==
    LET amount == Max(ctx.amount, 0)
        sender_bal == Max(ctx.sender_balance, 0)
        receiver_bal == Max(ctx.receiver_balance, 0)
        inflation_adj == 1000 + Max(ctx.inflation_rate, 0)
        base == (amount * cfg.base_tax_rate * inflation_adj) \div 1000
        penalised == (base * behavioral_penalty(ctx.sender_velocity)) \div 1000
        luxury == IF amount > cfg.luxury_threshold
                  THEN (amount - cfg.luxury_threshold) * cfg.luxury_tax_rate + penalised
                  ELSE penalised
        gap == IF sender_bal < cfg.poor_threshold /\ receiver_bal > cfg.rich_threshold
               THEN Max(luxury, amount * cfg.wealth_gap_tax_rate)
               ELSE luxury
    IN  Min(gap, amount * TAX_CAP)

risk_warning(ctx, cfg) ==
    LET amount == Max(ctx.amount, 0)
        sender_bal == Max(ctx.sender_balance, 0)
        pf == puppet_factor(ctx)
    IN  IF \/ amount * 1000 > cfg.warning_ratio * Max(sender_bal, 1)
           \/ pf[1] * 10 > cfg.velocity_threshold * WARN_VELOCITY_SHARE * pf[2]
        THEN CODE_WARNING_HIGH_RISK ELSE CODE_NORMAL

compute_transfer_check_internal(ctx, cfg) ==
    IF insufficient_funds(ctx) THEN TransferError(CODE_BLOCK_INSUFFICIENT_FUNDS)
    ELSE IF velocity_limit(ctx, cfg) THEN TransferError(CODE_BLOCK_VELOCITY_LIMIT)
    ELSE IF reverse_flow(ctx, cfg) THEN TransferError(CODE_BLOCK_REVERSE_FLOW)
    ELSE [final_tax |-> adaptive_tax(ctx, cfg), is_blocked |-> 0,
          warning_code |-> risk_warning(ctx, cfg)]

\* ecobridge_compute_transfer_check: the null checks, then the regulator
\* variant: the null test of the config comes first
TransferCheckCfgFirst ==
    /\ result = NoResult
    /\ result' = IF xfer.cfg = NullPtr THEN TransferError(ERR_NULL_CFG)
                 ELSE IF xfer.ctx = NullPtr THEN TransferError(ERR_NULL_CTX)
                 ELSE compute_transfer_check_internal(xfer.ctx, xfer.cfg)
    /\ pureOut' = [op |-> "transfer",
                   derefs |-> IF xfer.ctx = NullPtr \/ xfer.cfg = NullPtr THEN {}
                              ELSE {"ctx", "cfg"}]
    /\ UNCHANGED <<storageVars, ffi, xfer, pid, pidCall, pidSteps, neffIn, neffOut, pureIn>>

\* ecobridge_compute_transfer_check: as_ref() turns a null pointer into None
\* without reading through it; the match arms (None, _) and (_, None) build the
\* error result, the arm (Some, Some) reads both structures.  pureOut.derefs is
\* the set of pointers read through.
TransferCheck ==
    /\ result = NoResult
    /\ result' = IF xfer.ctx = NullPtr THEN TransferError(ERR_NULL_CTX)
                 ELSE IF xfer.cfg = NullPtr THEN TransferError(ERR_NULL_CFG)
                 ELSE compute_transfer_check_internal(xfer.ctx, xfer.cfg)
    /\ pureOut' = [op |-> "transfer",
                   derefs |-> IF xfer.ctx = NullPtr \/ xfer.cfg = NullPtr THEN {}
                              ELSE {"ctx", "cfg"}]
    /\ UNCHANGED <<storageVars, ffi, xfer, pid, pidCall, pidSteps, neffIn, neffOut, pureIn>>

InitReg ==
    /\ StorageInit({<<>>}, 0)
    /\ ffi = NoCall
    /\ xfer \in [ctx : TransferContexts \cup {NullPtr}, cfg : RegulatorConfigs \cup {NullPtr}]
    /\ result = NoResult
    /\ pid = NullPtr /\ pidCall = NoPidCall /\ pidSteps = 0
    /\ NeffIdle
    /\ PureIdle

RegNext == TransferCheck

SpecReg == InitReg /\ [][RegNext]_vars

\* ------------------------------------------------------------------
\* f64 arithmetic.  A value is finite (an integer number of thousandths, of
\* magnitude at most FMAX), +inf, -inf or NaN; a finite result beyond FMAX
\* overflows to the infinity of its sign, as an f64 result beyond f64::MAX does.
\* ------------------------------------------------------------------
SCALE == 1000
FMAX == 2000000

Fin(v) == [k |-> "fin", v |-> v]
Inf(s) == [k |-> "inf", v |-> s]
NaN == [k |-> "nan", v |-> 0]
PosInf == Inf(1)
NegInf == Inf(-1)

is_finite(x) == x.k = "fin"
IsNaN(x) == x.k = "nan"
Sgn(v) == IF v > 0 THEN 1 ELSE IF v < 0 THEN -1 ELSE 0
Mag(v) == IF v < 0 THEN -v ELSE v

\* the f64 nearest to the exact result v (thousandths)
Norm(v) == IF v > FMAX THEN PosInf ELSE IF v < -FMAX THEN NegInf ELSE Fin(v)

\* position of a non-NaN value on the extended real line
Ord(x) == IF x.k = "inf" THEN x.v * (FMAX + 1) ELSE x.v

FLt(a, b) == ~IsNaN(a) /\ ~IsNaN(b) /\ Ord(a) < Ord(b)
FGt(a, b) == FLt(b, a)

FNeg(x) == IF IsNaN(x) THEN NaN ELSE [k |-> x.k, v |-> -x.v]
FAbs(x) == IF IsNaN(x) THEN NaN ELSE [k |-> x.k, v |-> Mag(x.v)]

FAdd(a, b) ==
    IF IsNaN(a) \/ IsNaN(b) THEN NaN
    ELSE IF a.k = "inf" /\ b.k = "inf" THEN (IF a.v = b.v THEN a ELSE NaN)
    ELSE IF a.k = "inf" THEN a
    ELSE IF b.k = "inf" THEN b
    ELSE Norm(a.v + b.v)

FSub(a, b) == FAdd(a, FNeg(b))

\* n / d rounded to the nearest integer, halves away from zero (d > 0)
RoundDiv(n, d) == Sgn(n) * ((Mag(n) + d \div 2) \div d)

FMul(a, b) ==
    IF IsNaN(a) \/ IsNaN(b) THEN NaN
    ELSE IF a.v = 0 \/ b.v = 0
         THEN (IF a.k = "inf" \/ b.k = "inf" THEN NaN ELSE Fin(0))
    ELSE IF a.k = "inf" \/ b.k = "inf" THEN Inf(Sgn(a.v) * Sgn(b.v))
    ELSE IF Mag(a.v) > (FMAX * SCALE) \div Mag(b.v) THEN Inf(Sgn(a.v) * Sgn(b.v))
    ELSE Norm(RoundDiv(a.v * b.v, SCALE))

FDiv(a, b) ==
    IF IsNaN(a) \/ IsNaN(b) THEN NaN
    ELSE IF a.k = "inf" THEN (IF b.k = "inf" THEN NaN
                              ELSE Inf(a.v * (IF b.v < 0 THEN -1 ELSE 1)))
    ELSE IF b.k = "inf" THEN Fin(0)
    ELSE IF b.v = 0 THEN (IF a.v = 0 THEN NaN ELSE Inf(Sgn(a.v)))
    ELSE Norm(Sgn(a.v) * Sgn(b.v) * ((Mag(a.v) * SCALE + Mag(b.v) \div 2) \div Mag(b.v)))

\* f64::mul_add(self, a, b) = self * a + b
mul_add(x, a, b) == FAdd(FMul(x, a), b)

\* f64::clamp(self, lo, hi): NaN stays NaN
clamp(x, lo, hi) ==
    IF IsNaN(x) THEN NaN ELSE IF FLt(x, lo) THEN lo ELSE IF FGt(x, hi) THEN hi ELSE x

\* ------------------------------------------------------------------
\* The PID controller (economy/control.rs, models.rs), values in thousandths
\* ------------------------------------------------------------------
DEFAULT_INTEGRATION_LIMIT == 30000
MAX_SAFE_DT == 1000
MIN_TIME_STEP == 0
OUTPUT_MIN_CLAMP == 500
OUTPUT_MAX_CLAMP == 5000
OUTPUT_BASELINE == 1000
INTEGRAL_DECAY == 1000
BACK_CALC_GAIN == 200
DERIVATIVE_FILTER_ALPHA == 300
PANIC_THRESHOLD == 50000
PANIC_DAMPING == 1800
SATURATION_TOLERANCE == 0
GAMMA_CENTRE == 50
GAMMA_SLOPE == 20000
NULL_PID_RESULT == 0
TEST_ITERATIONS == 100

MaxPidSteps == 3

\* PidState::default()
PidDefault ==
    [kp |-> Fin(500), ki |-> Fin(100), kd |-> Fin(50), lambda |-> Fin(10),
     integral |-> Fin(0), prev_pv |-> Fin(0), filtered_d |-> Fin(0),
     integration_limit |-> Fin(30000), is_saturated |-> 0]

\* sigmoid(x) = 1 / (1 + exp(-x)): exp(-x) is 0 from x = 20 on and +inf below
\* x = -710 (here: below -20, 1/(1+exp(20)) being 0 in thousandths); in between,
\* the values at the arguments the gain schedule is called with
sigmoid(x) ==
    CASE IsNaN(x) -> NaN
      [] ~IsNaN(x) /\ Ord(x) >= 20000 -> Fin(1000)
      [] ~IsNaN(x) /\ Ord(x) <= -20000 -> Fin(0)
      [] x = Fin(-1000) -> Fin(269)
      [] x = Fin(-600) -> Fin(354)
      [] x = Fin(0) -> Fin(500)
      [] x = Fin(1000) -> Fin(731)

\* variant: the input guard without the dt < 0 test
rejectedNonFiniteOnly(target_vel, current_vel, dt, inflation) ==
    \/ ~is_finite(target_vel) \/ ~is_finite(current_vel)
    \/ ~is_finite(dt)
    \/ ~is_finite(inflation)

\* the input guard of compute_pid_adjustment_internal
rejected(target_vel, current_vel, dt, inflation) ==
    \/ ~is_finite(target_vel) \/ ~is_finite(current_vel)
    \/ ~is_finite(dt) \/ FLt(dt, Fin(0))
    \/ ~is_finite(inflation)

\* variant: the integral accumulates the raw error whatever is_saturated says
accumulateRawError(p, error, dt_safe, combined_leakage) ==
    mul_add(p.integral, combined_leakage, FMul(error, dt_safe))

\* anti-windup: back-calculation when is_saturated is set on entry
accumulate(p, error, dt_safe, combined_leakage) ==
    IF p.is_saturated # 0
    THEN mul_add(p.integral, combined_leakage,
                 FMul(FMul(error, Fin(BACK_CALC_GAIN)), dt_safe))
    ELSE mul_add(p.integral, combined_leakage, FMul(error, dt_safe))

\* variant: the clamped output is returned as it is
output_defenceNone(final_output) == final_output

\* the last line: a non-finite clamped output is replaced by the baseline
output_defence(final_output) ==
    IF is_finite(final_output) THEN final_output ELSE Fin(OUTPUT_BASELINE)

\* one step: the PidState after the call, the value returned and the unclamped
\* output (NaN when the guard rejected the call)
compute_pid_adjustment_internal(p, target_vel, current_vel, dt, inflation) ==
    IF rejected(target_vel, current_vel, dt, inflation)
    THEN [pid |-> p, ret |-> Fin(OUTPUT_BASELINE), raw |-> NaN, accepted |-> FALSE]
    ELSE
    LET error == FSub(target_vel, current_vel)
        dt_safe == clamp(dt, Fin(0), Fin(MAX_SAFE_DT))
        schedule_gamma ==
            FAdd(Fin(1000), sigmoid(FMul(FSub(inflation, Fin(GAMMA_CENTRE)), Fin(GAMMA_SLOPE))))
        active_kp == FMul(p.kp, schedule_gamma)
        active_ki == FMul(p.ki, schedule_gamma)
        combined_leakage ==
            FMul(FSub(Fin(1000), clamp(p.lambda, Fin(0), Fin(1000))), Fin(INTEGRAL_DECAY))
        accumulated == accumulate(p, error, dt_safe, combined_leakage)
        limit == IF FGt(p.integration_limit, Fin(0)) THEN p.integration_limit
                 ELSE Fin(DEFAULT_INTEGRATION_LIMIT)
        integral == clamp(accumulated, FNeg(limit), limit)
        delta_pv == FSub(current_vel, p.prev_pv)
        raw_derivative == IF FGt(dt_safe, Fin(MIN_TIME_STEP)) THEN FDiv(delta_pv, dt_safe)
                          ELSE Fin(0)
        filtered_d == mul_add(Fin(DERIVATIVE_FILTER_ALPHA), raw_derivative,
                              FMul(FSub(Fin(1000), Fin(DERIVATIVE_FILTER_ALPHA)), p.filtered_d))
        d_multiplier == IF FGt(FAbs(filtered_d), Fin(PANIC_THRESHOLD)) THEN Fin(PANIC_DAMPING)
                        ELSE Fin(1000)
        p_term == FMul(active_kp, error)
        i_term == FMul(active_ki, integral)
        d_term == FMul(FMul(p.kd, filtered_d), d_multiplier)
        raw_output == FSub(FAdd(FAdd(Fin(OUTPUT_BASELINE), p_term), i_term), d_term)
        final_output == clamp(raw_output, Fin(OUTPUT_MIN_CLAMP), Fin(OUTPUT_MAX_CLAMP))
        saturated == IF FGt(FAbs(FSub(raw_output, final_output)), Fin(SATURATION_TOLERANCE))
                     THEN 1 ELSE 0
    IN  [pid |-> [kp |-> p.kp, ki |-> p.ki, kd |-> p.kd, lambda |-> p.lambda,
                  integral |-> integral, prev_pv |-> current_vel, filtered_d |-> filtered_d,
                  integration_limit |-> p.integration_limit, is_saturated |-> saturated],
         ret |-> output_defence(final_output),
         raw |-> raw_output, accepted |-> TRUE]

\* PidStates the host hands in: the default, the one of test_anti_windup_clamping
\* (ki = 10), one with integration_limit 0, no leakage and a saturated past, and
\* one the host has filled with garbage
TestPid == [PidDefault EXCEPT !.ki = Fin(10000)]

InitPids ==
    { PidDefault, TestPid,
      [PidDefault EXCEPT !.integration_limit = Fin(0), !.lambda = Fin(0),
                         !.integral = Fin(-30000), !.is_saturated = 1],
      [PidDefault EXCEPT !.kp = Fin(-500), !.lambda = NaN, !.integral = NaN,
                         !.prev_pv = PosInf, !.is_saturated = 7] }

\* <<target, current, dt, inflation>>
TestArgs == <<Fin(100000), Fin(50000), Fin(100), Fin(0)>>

PidArgs ==
    { TestArgs,
      <<Fin(100000), Fin(95000), Fin(1000), Fin(20)>>,
      <<Fin(50000), Fin(100000), Fin(5000), Fin(50)>>,
      <<Fin(1000), Fin(1000), Fin(0), Fin(100)>>,
      <<Fin(FMAX), Fin(-FMAX), Fin(0), Fin(FMAX)>>,
      <<NaN, Fin(50000), Fin(100), Fin(0)>>,
      <<Fin(100000), PosInf, Fin(100), Fin(0)>>,
      <<Fin(100000), Fin(50000), Fin(-100), Fin(0)>>,
      <<Fin(100000), Fin(50000), NaN, Fin(0)>>,
      <<Fin(100000), Fin(50000), Fin(100), NegInf>> }

\* ecobridge_compute_pid_adjustment on a non-null PidState
PidStep(args) ==
    /\ pid # NullPtr
    /\ pidSteps < MaxPidSteps
    /\ pidSteps' = pidSteps + 1
    /\ LET r == compute_pid_adjustment_internal(pid, args[1], args[2], args[3], args[4])
       IN  /\ pid' = r.pid
           /\ pidCall' = [op |-> "step", args |-> args, ret |-> r.ret, raw |-> r.raw,
                          accepted |-> r.accepted, before |-> pid]
    /\ UNCHANGED <<storageVars, ffi, xfer, result, neffIn, neffOut, pureIn, pureOut>>

\* ecobridge_compute_pid_adjustment(null, ..) returns 0.0
PidStepNull ==
    /\ pidSteps < MaxPidSteps
    /\ pidSteps' = pidSteps + 1
    /\ pidCall' = [op |-> "step_null", args |-> TestArgs, ret |-> Fin(NULL_PID_RESULT),
                   raw |-> NaN, accepted |-> FALSE, before |-> pid]
    /\ UNCHANGED <<storageVars, ffi, xfer, result, pid, neffIn, neffOut, pureIn, pureOut>>

\* variant: the reset clears the dynamic fields and keeps gains and limit
PidResetDynamicOnly ==
    /\ pid # NullPtr
    /\ pidSteps < MaxPidSteps
    /\ pidSteps' = pidSteps + 1
    /\ pid' = [pid EXCEPT !.integral = Fin(0), !.prev_pv = Fin(0), !.filtered_d = Fin(0),
                          !.is_saturated = 0]
    /\ pidCall' = [op |-> "reset", args |-> TestArgs, ret |-> Fin(0), raw |-> NaN,
                   accepted |-> TRUE, before |-> pid]
    /\ UNCHANGED <<storageVars, ffi, xfer, result, neffIn, neffOut, pureIn, pureOut>>

\* ecobridge_reset_pid_state: *pid = PidState::default()
PidReset ==
    /\ pid # NullPtr
    /\ pidSteps < MaxPidSteps
    /\ pidSteps' = pidSteps + 1
    /\ pid' = PidDefault
    /\ pidCall' = [op |-> "reset", args |-> TestArgs, ret |-> Fin(0), raw |-> NaN,
                   accepted |-> TRUE, before |-> pid]
    /\ UNCHANGED <<storageVars, ffi, xfer, result, neffIn, neffOut, pureIn, pureOut>>

\* ecobridge_reset_pid_state(null)
PidResetNull ==
    /\ pidSteps < MaxPidSteps
    /\ pidSteps' = pidSteps + 1
    /\ pidCall' = [op |-> "reset_null", args |-> TestArgs, ret |-> Fin(0), raw |-> NaN,
                   accepted |-> FALSE, before |-> pid]
    /\ UNCHANGED <<storageVars, ffi, xfer, result, pid, neffIn, neffOut, pureIn, pureOut>>


InitPid ==
    /\ StorageInit({<<>>}, 0)
    /\ ffi = NoCall /\ xfer = [ctx |-> NullPtr, cfg |-> NullPtr] /\ result = NoResult
    /\ pid \in InitPids
    /\ pidCall = NoPidCall
    /\ pidSteps = 0
    /\ NeffIdle
    /\ PureIdle

PidNext ==
    \/ \E args \in PidArgs : PidStep(args)
    \/ PidStepNull
    \/ PidReset
    \/ PidResetNull

SpecPid == InitPid /\ [][PidNext]_vars

\* test_anti_windup_clamping: the same step TEST_ITERATIONS times, then once more
TestStep ==
    /\ pidSteps < TEST_ITERATIONS + 1
    /\ pidSteps' = pidSteps + 1
    /\ LET r == compute_pid_adjustment_internal(pid, TestArgs[1], TestArgs[2],
                                                    TestArgs[3], TestArgs[4])
       IN  /\ pid' = r.pid
           /\ pidCall' = [op |-> "step", args |-> TestArgs, ret |-> r.ret, raw |-> r.raw,
                          accepted |-> r.accepted, before |-> pid]
    /\ UNCHANGED <<storageVars, ffi, xfer, result, neffIn, neffOut, pureIn, pureOut>>

InitPidTest ==
    /\ StorageInit({<<>>}, 0)
    /\ ffi = NoCall /\ xfer = [ctx |-> NullPtr, cfg |-> NullPtr] /\ result = NoResult
    /\ pid = TestPid
    /\ pidCall = NoPidCall
    /\ pidSteps = 0
    /\ NeffIdle
    /\ PureIdle

SpecPidTest == InitPidTest /\ [][TestStep]_vars

\* ------------------------------------------------------------------
\* The in-memory aggregator (economy/summation.rs).  A history is a sequence of
\* runs [ts, amount, n]; tau is a whole number of days.  A sum is kept as its
\* terms [coef, age]: the term stands for coef * exp(-age / (tau * MS_PER_DAY)).
\* ------------------------------------------------------------------
MaxNeffLen == 5
CHUNK == 4

\* the scalar path: compute_partial gives 0.0 for a record outside the window
RECURSIVE compute_partial_terms(_, _, _)
compute_partial_terms(history, current_time, tau) ==
    IF history = <<>> THEN <<>>
    ELSE LET rec == Head(history)
             rest == compute_partial_terms(Tail(history), current_time, tau)
         IN  IF rec.ts > current_time + MAX_FUTURE_TOLERANCE
                \/ rec.ts < current_time - tau * ms_per_day * TAIL_FACTOR
             THEN rest
             ELSE <<[coef |-> rec.amount * rec.n, age |-> current_time - rec.ts]>> \o rest

\* calculate_volume_in_memory, scalar path: 0.0 (no term) for an empty history or
\* tau <= 0
calculate_volume_in_memory(history, current_time, tau) ==
    IF history = <<>> \/ tau <= 0 THEN <<>>
    ELSE compute_partial_terms(history, current_time, tau)

\* positions (in the expanded history) of the records the scalar path sums
scalar_selected(history, current_time, tau) ==
    IF history = <<>> \/ tau <= 0 THEN {}
    ELSE { i \in 1..RunsLen(history) :
             ~( RunsAt(history, i).ts > current_time + MAX_FUTURE_TOLERANCE
                \/ RunsAt(history, i).ts < current_time - tau * ms_per_day * TAIL_FACTOR ) }

\* the records of positions S that pass the per-record test of the AVX2 path
InWindow(history, S, valid_future, valid_past) ==
    { j \in S : RunsAt(history, j).ts <= valid_future /\ RunsAt(history, j).ts >= valid_past }

\* variant: a chunk holding a record outside the window is skipped as a whole
chunk_selectedSkipDirty(history, c, valid_future, valid_past) ==
    LET chunk == (CHUNK * (c - 1) + 1)..(CHUNK * c)
    IN  IF \E j \in chunk : RunsAt(history, j).ts > valid_future
                            \/ RunsAt(history, j).ts < valid_past
        THEN {}
        ELSE chunk

\* compute_partial_simd, one chunk of four: the pre-check, then either the
\* per-record loop or all four lanes
chunk_selected(history, c, valid_future, valid_past) ==
    LET chunk == (CHUNK * (c - 1) + 1)..(CHUNK * c)
    IN  IF \E j \in chunk : RunsAt(history, j).ts > valid_future
                            \/ RunsAt(history, j).ts < valid_past
        THEN InWindow(history, chunk, valid_future, valid_past)
        ELSE chunk

\* positions of the records the AVX2 path sums: chunks_exact(4), then the remainder
simd_selected(history, current_time, tau) ==
    IF history = <<>> \/ tau <= 0 THEN {}
    ELSE LET len == RunsLen(history)
             chunks == len \div CHUNK
             vf == current_time + MAX_FUTURE_TOLERANCE
             vp == current_time - tau * ms_per_day * TAIL_FACTOR
         IN  UNION { chunk_selected(history, c, vf, vp) : c \in 1..chunks }
             \cup InWindow(history, (CHUNK * chunks + 1)..len, vf, vp)

\* positions of the rows the SQL of query_neff_from_db sums: WHERE ts > ?3; with
\* tau = 0 the division in EXP gives NULL for every row and the sum has no term
sql_selected(rows, current_ts, tau) ==
    IF tau = 0 THEN {}
    ELSE { i \in 1..RunsLen(rows) :
             RunsAt(rows, i).ts > current_ts - tau * ms_per_day * LOOKBACK_FACTOR }

\* exp(-age / (tau * MS_PER_DAY)) in thousandths, at the ages the model's
\* histories hold
decay(age, tau) ==
    CASE age = 0 -> 1000
      [] age = tau * ms_per_day -> 368
      [] age = -MAX_FUTURE_TOLERANCE /\ tau = 1 -> 1001

\* the value of a sum of terms, in thousandths
RECURSIVE SumValue(_, _)
SumValue(terms, tau) ==
    IF terms = <<>> THEN 0
    ELSE Head(terms).coef * decay(Head(terms).age, tau) + SumValue(Tail(terms), tau)

\* records a caller may hand in, around the window of a query at WallNow, tau = 1
NeffRecords ==
    { [ts |-> WallNow, amount |-> 100, n |-> 1],
      [ts |-> WallNow - TAIL_FACTOR * ms_per_day, amount |-> -7, n |-> 1],
      [ts |-> WallNow - TAIL_FACTOR * ms_per_day - 1, amount |-> 9, n |-> 1],
      [ts |-> WallNow + MAX_FUTURE_TOLERANCE, amount |-> 3, n |-> 1],
      [ts |-> WallNow + 65000, amount |-> 500, n |-> 1],
      [ts |-> 2 * WallNow, amount |-> 1000, n |-> 1] }

NeffTaus == {-1, 0, 1, 2}

\* the aggregator on neffIn, by its two paths, and the SQL of query_neff_from_db
\* on the same records
NeffQuery ==
    /\ ~neffOut.done
    /\ neffOut' =
         [scalar |-> scalar_selected(neffIn.history, neffIn.current_time, neffIn.tau),
          simd |-> simd_selected(neffIn.history, neffIn.current_time, neffIn.tau),
          sql |-> sql_selected(neffIn.history, neffIn.current_time, neffIn.tau),
          terms |-> calculate_volume_in_memory(neffIn.history, neffIn.current_time, neffIn.tau),
          done |-> TRUE]
    /\ UNCHANGED <<storageVars, ffi, xfer, result, pid, pidCall, pidSteps, neffIn,
                   pureIn, pureOut>>

Histories == UNION { [1..len -> NeffRecords] : len \in 0..MaxNeffLen }

InitNeff ==
    /\ StorageInit({<<>>}, 0)
    /\ ffi = NoCall /\ xfer = [ctx |-> NullPtr, cfg |-> NullPtr] /\ result = NoResult
    /\ pid = NullPtr /\ pidCall = NoPidCall /\ pidSteps = 0
    /\ neffIn \in [history : Histories, current_time : {WallNow}, tau : NeffTaus]
    /\ neffOut = NoNeff
    /\ PureIdle

NeffNext == NeffQuery

SpecNeff == InitNeff /\ [][NeffNext]_vars

\* ------------------------------------------------------------------
\* The environment factor (economy/environment.rs): the weekend factor.  Times in
\* ms (current_timestamp) and seconds (timezone_offset); factors in thousandths.
\* The local time ts_sec_local = current_timestamp / 1000.0 + timezone_offset is
\* kept in ms, where it is exact.
\* ------------------------------------------------------------------
SECONDS_PER_DAY == 86400
MS_PER_SECOND == 1000
EPOCH_WEEKDAY == 4
DAYS_PER_WEEK == 7
FIRST_WEEKEND_DAY == 5
NO_WEEKEND_FACTOR == 1000
LN_FLOOR == 10
EPSILON_MIN == 100
EPSILON_MAX == 10000
NULL_EPSILON == 1000
MaxDay == 8

\* division of Rust's integers and of `as i64`: towards zero; b > 0
TruncDiv(a, b) == IF a >= 0 THEN a \div b ELSE -((-a) \div b)
\* Rust's % : the remainder has the sign of the dividend
TruncRem(a, b) == a - b * TruncDiv(a, b)

\* (x / d).floor() as i64 for the real quotient of a by b
floor_div(a, b) == IF TruncRem(a, b) < 0 THEN TruncDiv(a, b) - 1 ELSE TruncDiv(a, b)

\* variant: the % operator in place of rem_euclid
rem_euclidTruncated(a, n) == TruncRem(a, n)

\* i64::rem_euclid
rem_euclid(a, n) ==
    LET r == TruncRem(a, n)
    IN  IF r < 0 THEN r + n ELSE r

day_of_week(ctx) ==
    LET ts_ms_local == ctx.current_timestamp + MS_PER_SECOND * ctx.timezone_offset
        day_index == floor_div(ts_ms_local, SECONDS_PER_DAY * MS_PER_SECOND)
    IN  rem_euclid(day_index + EPOCH_WEEKDAY, DAYS_PER_WEEK)

f_wk(ctx, cfg) ==
    IF day_of_week(ctx) >= FIRST_WEEKEND_DAY THEN cfg.weekend_multiplier
    ELSE NO_WEEKEND_FACTOR

\* calculate_epsilon_internal with the weights of the module's tests (weekend
\* weight 1.0, the other weights 0.0): exp(ln(max(f_wk, 0.01))) clamped
calculate_epsilon_internal(ctx, cfg) ==
    Min(Max(Max(f_wk(ctx, cfg), LN_FLOOR), EPSILON_MIN), EPSILON_MAX)

\* times of day: midnight, 23:00 and the last ms of the day
DayTimes == {0, 82800000, 86399999}
TradeContexts ==
    [current_timestamp : { d * SECONDS_PER_DAY * MS_PER_SECOND + r :
                             d \in (-MaxDay)..MaxDay, r \in DayTimes },
     timezone_offset : {-43200, 0, 28800}]
MarketConfigs == [weekend_multiplier : {1200, 2000}]

\* ecobridge_calculate_epsilon with two non-null pointers
CalculateEpsilon ==
    /\ pureIn.op = "epsilon" /\ pureOut = NoPure
    /\ pureOut' = [op |-> "epsilon",
                   day_of_week |-> day_of_week(pureIn.ctx),
                   f_wk |-> f_wk(pureIn.ctx, pureIn.cfg),
                   ret |-> calculate_epsilon_internal(pureIn.ctx, pureIn.cfg)]
    /\ UNCHANGED <<storageVars, ffi, xfer, result, pid, pidCall, pidSteps,
                   neffIn, neffOut, pureIn>>

\* ecobridge_calculate_epsilon with a null pointer: 1.0
CalculateEpsilonNull ==
    /\ pureIn.op = "epsilon_null" /\ pureOut = NoPure
    /\ pureOut' = [op |-> "epsilon_null", ret |-> NULL_EPSILON]
    /\ UNCHANGED <<storageVars, ffi, xfer, result, pid, pidCall, pidSteps,
                   neffIn, neffOut, pureIn>>

InitEnv ==
    /\ StorageInit({<<>>}, 0)
    /\ ffi = NoCall /\ xfer = [ctx |-> NullPtr, cfg |-> NullPtr] /\ result = NoResult
    /\ pid = NullPtr /\ pidCall = NoPidCall /\ pidSteps = 0
    /\ NeffIdle
    /\ pureIn \in [op : {"epsilon"}, ctx : TradeContexts, cfg : MarketConfigs]
                  \cup {[op |-> "epsilon_null"]}
    /\ pureOut = NoPure

EnvNext == CalculateEpsilon \/ CalculateEpsilonNull

SpecEnv == InitEnv /\ [][EnvNext]_vars

\* ------------------------------------------------------------------
\* Tier pricing (economy/pricing.rs).  Quantities and base prices are whole
\* numbers; a unit price is the exact quotient num / den, num in twentieths of
\* the currency unit (1.0 = 20, 0.85 = 17, 0.60 = 12).
\* ------------------------------------------------------------------
RATE_UNIT == 20
TIER2_RATE == 17
TIER3_RATE == 12
TIER1_LIMIT == 500
TIER2_WIDTH == 1500
MaxBase == 10
MaxQty == 3000

\* variant: everything past the first tier is paid at the second tier's rate
compute_tier_price_internalTwoTiers(base_price, quantity, is_sell) ==
    IF ~is_sell \/ quantity <= TIER1_LIMIT \/ quantity <= 0
    THEN [num |-> base_price * RATE_UNIT, den |-> 1]
    ELSE LET t1 == Min(quantity, TIER1_LIMIT)
             remaining1 == quantity - t1
         IN  [num |-> t1 * base_price * RATE_UNIT + remaining1 * base_price * TIER2_RATE,
              den |-> quantity]

compute_tier_price_internal(base_price, quantity, is_sell) ==
    IF ~is_sell \/ quantity <= TIER1_LIMIT \/ quantity <= 0
    THEN [num |-> base_price * RATE_UNIT, den |-> 1]
    ELSE LET t1 == Min(quantity, TIER1_LIMIT)
             value1 == t1 * base_price * RATE_UNIT
             remaining1 == quantity - t1
             t2 == IF remaining1 > 0 THEN Min(remaining1, TIER2_WIDTH) ELSE 0
             value2 == value1 + t2 * base_price * TIER2_RATE
             remaining2 == remaining1 - t2
             value3 == IF remaining2 > 0 THEN value2 + remaining2 * base_price * TIER3_RATE
                       ELSE value2
         IN  [num |-> value3, den |-> quantity]

Bases == {-MaxBase, 0, 1, MaxBase}
Quantities == {-5, 0, 1, 499, 500, 501, 1000, 1999, 2000, 2001, 2500, MaxQty}

\* ecobridge_compute_tier_price
ComputeTierPrice ==
    /\ pureIn.op = "tier" /\ pureOut = NoPure
    /\ pureOut' = [op |-> "tier",
                   ret |-> compute_tier_price_internal(pureIn.base, pureIn.qty, pureIn.is_sell)]
    /\ UNCHANGED <<storageVars, ffi, xfer, result, pid, pidCall, pidSteps,
                   neffIn, neffOut, pureIn>>

InitTier ==
    /\ StorageInit({<<>>}, 0)
    /\ ffi = NoCall /\ xfer = [ctx |-> NullPtr, cfg |-> NullPtr] /\ result = NoResult
    /\ pid = NullPtr /\ pidCall = NoPidCall /\ pidSteps = 0
    /\ NeffIdle
    /\ pureIn \in [op : {"tier"}, base : Bases, qty : Quantities, is_sell : BOOLEAN]
    /\ pureOut = NoPure

TierNext == ComputeTierPrice

SpecTier == InitTier /\ [][TierNext]_vars

\* ==================================================================
\* Claims
\* ==================================================================

\* C1: once shutdown_db has enqueued the ts = -1 sentinel and returned 0, the
\* cold writer eventually has flushed its batch buffer and has exited, whatever
\* the queue held at the call and whichever receive takes the sentinel.
C1_ShutdownStopsWriter ==
    shutOk ~> (logSender # NoThread /\ wpc[logSender] = "exited" /\ buf[logSender] = <<>>)

\* C2: read-after-write.  A query_neff that completes normally right after the
\* same thread's log_event of a non-zero trade whose ts lies in the query
\* window (tau > 0) includes that trade: its sum has the trade's term and is
\* positive, whether or not the cold writer has persisted the event.  (Stated
\* for the most favourable case: the store is initialized, the query did not
\* fail and the log channel accepted the event.)
C2_ReadAfterWrite ==
    \A t \in Threads :
        ( /\ ret[t].op = "query"
          /\ ret[t].status = "ok"
          /\ ret[t].prevQueued
          /\ ret[t].prev.uuid # NoThread
          /\ ret[t].prev.delta # 0
          /\ ret[t].tau > 0
          /\ is_valid_record(ret[t].prev.ts, ret[t].current_ts, ret[t].tau) )
        => /\ SumPositive(ret[t].sum)
           /\ \E i \in 1..Len(ret[t].sum) :
                 /\ ret[t].sum[i].age = ret[t].current_ts - ret[t].prev.ts
                 /\ ret[t].sum[i].coef >= Abs(ret[t].prev.delta)

\* C3: in every reachable state the hot history holds at most 500 000 records.
C3_HistoryCap == RunsLen(hist) <= HIST_LIMIT


\* start positions of the runs of rs in the expanded sequence, the first at from
RECURSIVE RunStarts(_, _)
RunStarts(rs, from) ==
    IF rs = <<>> THEN {}
    ELSE {from} \cup RunStarts(Tail(rs), from + Head(rs).n)

\* entry j of the expanded sequence h followed by the entry e
PushedAt(h, e, j) == IF j <= RunsLen(h) THEN RunsAt(h, j) ELSE e

\* hist' is the expanded sequence (hist, then e) without its first `removed`
\* entries: same length, and the same entry at every position where a run of
\* either sequence starts (both are constant in between)
IsSuffixAfterPush(h, e, removed, hNew) ==
    LET len == RunsLen(h) + 1
        starts == {1} \cup RunStarts(hNew, 1)
                      \cup {j - removed : j \in RunStarts(h, 1) \cup {len}}
    IN  /\ RunsLen(hNew) = len - removed
        /\ \A i \in starts :
              (1 <= i /\ i <= len - removed) => RunsAt(hNew, i) = PushedAt(h, e, i + removed)

\* thread t takes the step that appends to the hot history
AppendStep(t) == pc[t] = "idle" /\ pc'[t] = "log_send"
AppendedEntry(t) == [ts |-> cur'[t].ev.ts, amount |-> cur'[t].ev.delta]

\* C4 (as stated): when an append makes the hot history length exceed 500 000,
\* the prune removes exactly the 100 000 oldest entries, in the same critical
\* section, and keeps the remaining entries in their original order.
C4_PruneRemoves100000 ==
    [][\A t \in Threads :
          (AppendStep(t) /\ RunsLen(hist) + 1 > HIST_LIMIT)
          => IsSuffixAfterPush(hist, AppendedEntry(t), 100000, hist')]_vars

\* C4 (amended): when an append makes the hot history length len exceed
\* 500 000, the prune removes the len - 400 000 oldest entries (100 001 when the
\* history held 500 000 entries before the append) in the same critical section,
\* leaving exactly the newest 400 000 entries in their original order; an append
\* that does not exceed 500 000 removes nothing.
C4_PruneKeepsNewest400000 ==
    [][\A t \in Threads :
          AppendStep(t)
          => LET len == RunsLen(hist) + 1
             IN  IF len > HIST_LIMIT
                 THEN /\ IsSuffixAfterPush(hist, AppendedEntry(t), len - 400000, hist')
                      /\ RunsLen(hist') = 400000
                      /\ (RunsLen(hist) = 500000 => len - RunsLen(hist') = 100001)
                 ELSE IsSuffixAfterPush(hist, AppendedEntry(t), 0, hist')]_vars

\* a prune has just cut a history of 500 001 entries, spanning two runs, to 400 000
C4_Witness ==
    \E t \in Threads :
        /\ pc[t] = "log_send"
        /\ cur[t].removed = 100001
        /\ RunsLen(hist) = 400000
        /\ Len(hist) >= 2

\* C5: log_event never waits for queue space.  A call whose try_send meets a
\* full channel still returns in that step, DROPPED_LOGS grows by exactly one
\* and the queue is left alone; TOTAL_LOGS grows by exactly one per call with
\* non-null strings (and by nothing else), so total is the number of such calls
\* and dropped <= total.
ChannelFull == logSender # NoThread /\ RxAlive(logSender) /\ Len(chan[logSender]) >= ChannelCap

RECURSIVE SumOver(_, _)
SumOver(f, S) == IF S = {} THEN 0 ELSE LET x == CHOOSE y \in S : TRUE
                                       IN  f[x] + SumOver(f, S \ {x})

C5_LogNeverBlocks ==
    [][ /\ \A t \in Threads :
              pc[t] = "log_send"
              => /\ ENABLED LogSend(t)
                 /\ (pc'[t] # "log_send" /\ ChannelFull)
                    => (pc'[t] = "idle" /\ dropped' = dropped + 1 /\ chan' = chan)
        /\ total' - total = SumOver(seq', Threads) - SumOver(seq, Threads)
        /\ total' - total = Cardinality({t \in Threads : AppendStep(t)})
        /\ total' = SumOver(seq', Threads)
        /\ dropped' <= total' ]_vars

\* a log_event has just been refused by the full channel
C5_Witness ==
    /\ ChannelFull
    /\ \E t \in Threads : ret[t].op = "log" /\ ~ret[t].sent /\ dropped >= 1
    /\ total >= ChannelCap + 1

\* C6: two events of the same producer thread that are both in the cold store
\* were written in their submission order.
C6_ProducerOrder ==
    \A i, j \in 1..Len(cold) :
        (i < j /\ cold[i].uuid = cold[j].uuid /\ cold[i].uuid \in Threads)
        => cold[i].meta < cold[j].meta

\* two events of one producer have been written, while another producer logged too
C6_Witness ==
    /\ \E i, j \in 1..Len(cold) :
          i < j /\ cold[i].uuid = cold[j].uuid /\ cold[i].uuid \in Threads
    /\ \A t \in Threads : seq[t] >= 1

\* C7: once no caller holds a connection, the reader pool holds as many
\* connections as when it was created, also after calls that panicked.
C7_PoolRestored ==
    (readPool # NoThread /\ \A t \in Threads : pc[t] \notin {"query_run", "load_run"})
    => poolAvail = poolInit

\* C8: an init_db call (valid path) made after an earlier init_db returned 0
\* returns -7, and 0 is returned only by the call that performed the
\* initialization.
C8_AlreadyInit ==
    \A t \in Threads :
        (ret[t].op = "init" /\ ret[t].code \notin {-1, -2})
        => /\ ret[t].afterInit => ret[t].code = -7
           /\ ret[t].code = 0 => ret[t].performed


\* C9: at every boundary entry point, shutdown_db and abi_version included, a
\* panic raised inside the body does not reach the host: the call returns the
\* entry point's fallback value and the panic counter grows by exactly one.
C9_PanicBarrier ==
    [][\A e \in EntryPoints :
          (BoundaryCall(e, TRUE) /\ ffi'.entry = e)
          => /\ ffi'.outcome = "fallback"
             /\ ffi'.value = fallback(e)
             /\ panicCounter' = panicCounter + 1]_vars

\* the injection condition of the specification (the source has no such check):
\* sender a veteran, receiver a newbie, receiver balance + amount over the limit
injection(ctx, cfg) ==
    /\ ctx.sender_play_time > cfg.veteran_hours * SECS_PER_HOUR
    /\ ctx.receiver_play_time < cfg.newbie_hours * SECS_PER_HOUR
    /\ Max(ctx.receiver_balance, 0) + Max(ctx.amount, 0) > cfg.newbie_receive_limit

\* the codes of the blocking conditions that hold, in the order 4, 5, 2, 3
Matches(ctx, cfg) ==
    SelectSeq(<<[code |-> 4, holds |-> insufficient_funds(ctx)],
                [code |-> 5, holds |-> velocity_limit(ctx, cfg)],
                [code |-> 2, holds |-> reverse_flow(ctx, cfg)],
                [code |-> 3, holds |-> injection(ctx, cfg)]>>,
              LAMBDA m : m.holds)

\* C10: the blocking checks are applied in the order insufficient funds (4),
\* velocity (5), reverse flow (2), injection (3) and the first that matches
\* decides: whenever at least one blocking condition holds, the transfer is
\* blocked with the code of the earliest one that holds.
C10_FirstMatchDecides ==
    (result # NoResult /\ xfer.ctx # NullPtr /\ xfer.cfg # NullPtr
       /\ Matches(xfer.ctx, xfer.cfg) # <<>>)
    => /\ result.is_blocked = 1
       /\ result.warning_code = Head(Matches(xfer.ctx, xfer.cfg)).code


\* a regulator call on non-null pointers has returned
Checked == result # NoResult /\ xfer.ctx # NullPtr /\ xfer.cfg # NullPtr

\* C11: a transfer that passes the funds, velocity and reverse-flow checks and
\* meets the injection condition (veteran sender, newbie receiver,
\* receiver_balance + amount > newbie_receive_limit) is blocked with
\* warning_code 3 and tax 0.
C11_InjectionBlocked ==
    (Checked /\ ~insufficient_funds(xfer.ctx) /\ ~velocity_limit(xfer.ctx, xfer.cfg)
       /\ ~reverse_flow(xfer.ctx, xfer.cfg) /\ injection(xfer.ctx, xfer.cfg))
    => (result.is_blocked = 1 /\ result.warning_code = 3 /\ result.final_tax = 0)

\* C12: a blocked result has tax 0 and a warning_code among 2, 3, 4, 5; a result
\* that is not blocked has warning_code 0 or 1 and a tax between 0 and
\* 0.8 * max(amount, 0) (taxes are in thousandths: 800 * amount).
C12_ResultShape ==
    Checked
    => /\ result.is_blocked \in {0, 1}
       /\ result.is_blocked = 1 => (result.final_tax = 0 /\ result.warning_code \in {2, 3, 4, 5})
       /\ result.is_blocked = 0
          => /\ result.warning_code \in {0, 1}
             /\ 0 <= result.final_tax
             /\ result.final_tax <= 800 * Max(xfer.ctx.amount, 0)

\* an accepted transfer whose tax (penalty and luxury surcharge included) was cut
\* down to the cap
C12_Witness ==
    /\ Checked
    /\ result.is_blocked = 0
    /\ result.final_tax = 800 * xfer.ctx.amount
    /\ adaptive_taxUncapped(xfer.ctx, xfer.cfg) > result.final_tax
    /\ xfer.ctx.amount > xfer.cfg.luxury_threshold


\* a PID step on a non-null PidState has returned
Stepped == pidCall.op = "step"
ArgsFinite == \A i \in 1..4 : pidCall.args[i].k = "fin"
\* the gains of p are finite and not negative
GainsValid(p) == \A g \in {p.kp, p.ki, p.kd} : g.k = "fin" /\ g.v >= 0

\* C13: a PID step called with a non-finite target, current, dt or inflation, or
\* with dt < 0, returns 1.0 and leaves every field of the PidState as it was.
C13_GuardLeavesState ==
    (Stepped /\ (~ArgsFinite \/ (pidCall.args[3].k = "fin" /\ pidCall.args[3].v < 0)))
    => (pidCall.ret = Fin(1000) /\ pid = pidCall.before)

\* a step with dt < 0 was refused on a PidState that earlier steps had driven
\* into saturation
C13_Witness ==
    /\ Stepped
    /\ pidCall.args[3].k = "fin" /\ pidCall.args[3].v < 0
    /\ pid.is_saturated = 1 /\ pid.integral # Fin(0) /\ pid.prev_pv # Fin(0)

\* C14: on a PidState with finite non-negative gains, every step with finite
\* arguments returns a value in [0.5, 5.0].
C14_OutputRange ==
    (Stepped /\ ArgsFinite /\ GainsValid(pidCall.before))
    => (pidCall.ret.k = "fin" /\ 500 <= pidCall.ret.v /\ pidCall.ret.v <= 5000)

\* an accepted step whose unclamped output was NaN
C14_Witness ==
    /\ Stepped /\ ArgsFinite /\ GainsValid(pidCall.before) /\ pidCall.accepted
    /\ pidCall.raw.k = "nan"

\* the effective integral limit of p, and a PidState that satisfies the data
\* model's invariants
EffectiveLimit(p) ==
    IF p.integration_limit.k # "nan" /\ Ord(p.integration_limit) > 0
    THEN Ord(p.integration_limit) ELSE 30000

PidStateValid(p) ==
    /\ GainsValid(p)
    /\ p.lambda.k = "fin" /\ 0 <= p.lambda.v /\ p.lambda.v <= 1000
    /\ p.integral.k = "fin" /\ Mag(p.integral.v) <= EffectiveLimit(p)
    /\ p.prev_pv.k = "fin" /\ p.filtered_d.k = "fin" /\ p.integration_limit.k = "fin"

\* C15: after every step that passed the input guard, on a PidState that
\* satisfied the data model's invariants, the stored integral is a number with
\* |integral| <= L, L being integration_limit when that is > 0 and 30 otherwise.
C15_IntegralBounded ==
    (Stepped /\ pidCall.accepted /\ PidStateValid(pidCall.before))
    => (pid.integral.k = "fin" /\ Mag(pid.integral.v) <= EffectiveLimit(pidCall.before))

\* what the anti-windup rule says of an accepted step: the integral after it,
\* given the error and dt_safe of the call and the factor applied to the error
Advanced(p, args, factor) ==
    LET error == FSub(args[1], args[2])
        dt_safe == clamp(args[3], Fin(0), Fin(1000))
        leak == FMul(FSub(Fin(1000), clamp(p.lambda, Fin(0), Fin(1000))), Fin(1000))
        L == IF FGt(p.integration_limit, Fin(0)) THEN p.integration_limit ELSE Fin(30000)
    IN  clamp(FAdd(FMul(p.integral, leak), FMul(FMul(error, factor), dt_safe)), FNeg(L), L)

OutputClamped == FLt(pidCall.raw, Fin(500)) \/ FGt(pidCall.raw, Fin(5000))

AntiWindupRule ==
    /\ pid.integral = Advanced(pidCall.before, pidCall.args,
                               IF pidCall.before.is_saturated # 0 THEN Fin(200) ELSE Fin(1000))
    /\ pid.is_saturated = IF OutputClamped THEN 1 ELSE 0

\* C16 (as stated): a step entered with is_saturated set advances the integral
\* by 0.2 * error * dt_safe instead of error * dt_safe and recomputes
\* is_saturated from the clamping of the output; under the sustained error of
\* the test (ki = 10, target 100, current 50, dt 0.1) is_saturated stays 1 and
\* the integral grows by at most 5 % per further step.
C16_GrowthAtMost5Percent ==
    (Stepped /\ pidCall.accepted)
    => /\ AntiWindupRule
       /\ pidCall.before.is_saturated # 0
          => /\ pid.is_saturated = 1
             /\ 100 * pid.integral.v <= 105 * pidCall.before.integral.v

\* C16 (amended): the same rule for the integral and for is_saturated; under the
\* sustained error of the test is_saturated stays 1 from the first step on, and
\* after the test's 100 iterations (the integral then sits at the limit) a
\* further step grows the integral by at most 5 %.
C16_GrowthAfter100Iterations ==
    (Stepped /\ pidCall.accepted)
    => /\ AntiWindupRule
       /\ pidCall.before.is_saturated # 0 => pid.is_saturated = 1
       /\ pidSteps > 100 => 100 * pid.integral.v <= 105 * pidCall.before.integral.v

\* the step after the 100 iterations: saturated on entry, integral at the limit
C16_Witness ==
    /\ Stepped /\ pidCall.accepted /\ pidSteps = 101
    /\ pidCall.before.is_saturated = 1 /\ pid.is_saturated = 1
    /\ pidCall.before.integral = Fin(30000)

\* C17: reset_pid_state on a non-null PidState leaves integral, prev_pv,
\* filtered_d and is_saturated at 0 and the gains and the limit at the defaults
\* (0.5, 0.1, 0.05, 0.01, 30); the step after a reset does what it does on a
\* fresh default state; reset on a null pointer changes nothing.
FreshDefault ==
    [kp |-> Fin(500), ki |-> Fin(100), kd |-> Fin(50), lambda |-> Fin(10),
     integral |-> Fin(0), prev_pv |-> Fin(0), filtered_d |-> Fin(0),
     integration_limit |-> Fin(30000), is_saturated |-> 0]

C17_ResetToDefaults ==
    [][ /\ pidCall'.op = "reset" => pid' = FreshDefault
        /\ pidCall'.op = "reset_null" => pid' = pid
        /\ (pidCall.op = "reset" /\ pidCall'.op = "step")
           => LET fresh == compute_pid_adjustment_internal(
                               FreshDefault, pidCall'.args[1], pidCall'.args[2],
                               pidCall'.args[3], pidCall'.args[4])
              IN  pid' = fresh.pid /\ pidCall'.ret = fresh.ret ]_vars

\* a PidState with non-default gains, driven into saturation, has been reset
C17_Witness ==
    /\ pidCall.op = "reset"
    /\ pidCall.before.ki = Fin(10000)
    /\ pidCall.before.is_saturated = 1 /\ pidCall.before.integral # Fin(0)
    /\ pid = FreshDefault


\* ------------------------------------------------------------------
\* C18: the aggregator weighs every record of the hot window by the absolute
\* value of its amount, so on every hot history that hydration and log_event
\* can build (negative deltas included) the Neff result is >= 0.
\* Checked at query time WallNow and tau = 1 day; NeffOnHot is the result in
\* thousandths.
NeffOnHot == SumValue(calculate_volume_in_memory(hist, WallNow, 1), 1)

C18_NeffNonNegative == NeffOnHot >= 0

\* a negative delta logged at query time is the whole hot window
C18_NegativeOnHot ==
    /\ \E i \in 1..Len(hist) : hist[i].amount < 0 /\ hist[i].ts = WallNow
    /\ NeffOnHot < 0

\* ------------------------------------------------------------------
\* C19: the in-memory sum takes exactly the records with
\* t_now - 10 * tau * 86 400 000 <= ts <= t_now + 60 000 and no other; an empty
\* history or tau <= 0 gives 0; the chunk-of-four path and the scalar path take
\* the same records, whatever the length of the history and wherever in a chunk
\* a record outside the window stands.
Queried == neffOut.done

WindowOf(history, t_now, tau) ==
    { i \in 1..RunsLen(history) :
        /\ t_now - 10 * tau * 86400000 <= RunsAt(history, i).ts
        /\ RunsAt(history, i).ts <= t_now + 60000 }

C19_WindowExact ==
    Queried =>
        /\ (neffIn.history = <<>> \/ neffIn.tau <= 0) =>
               /\ neffOut.terms = <<>>
               /\ neffOut.scalar = {} /\ neffOut.simd = {}
        /\ neffIn.tau > 0 =>
               /\ neffOut.scalar = WindowOf(neffIn.history, neffIn.current_time, neffIn.tau)
               /\ neffOut.simd = neffOut.scalar
               /\ Len(neffOut.terms) = Cardinality(neffOut.scalar)

\* a history of a full chunk and a remainder; the chunk holds a record just past
\* the future limit between records of the window, the remainder a record just
\* past the tail cutoff
C19_Witness ==
    /\ Queried /\ neffIn.tau = 1
    /\ RunsLen(neffIn.history) = CHUNK + 1
    /\ neffIn.history[1].ts = WallNow
    /\ neffIn.history[2].ts = WallNow + 65000
    /\ neffIn.history[3].ts = WallNow + MAX_FUTURE_TOLERANCE
    /\ neffIn.history[4].ts = WallNow - TAIL_FACTOR * ms_per_day
    /\ neffIn.history[5].ts = WallNow - TAIL_FACTOR * ms_per_day - 1
    /\ neffOut.simd = {1, 3, 4}

\* ------------------------------------------------------------------
\* C20: the SQL fallback on the cold store follows the contract of the hot
\* path: on the same records, query time and tau it sums exactly the records
\* the hot path sums (tail cutoff at 10 * tau days, no timestamp more than
\* 60 000 ms ahead), and gives 0 when no record qualifies.
C20_SqlSameRecords ==
    (Queried /\ neffIn.tau > 0) => neffOut.sql = neffOut.scalar

\* ------------------------------------------------------------------
\* C21: the weekend factor follows the local day of week
\* (floor((ts_utc_seconds + timezone_offset) / 86 400) + 4) mod 7, the modulo
\* floored and never negative, also for negative local times: the weekend
\* multiplier applies exactly when that day is >= 5, the factor is 1 otherwise;
\* Thursday 23:00 UTC is a weekday at offset 0 and a weekend day at +8 h, and
\* Saturday UTC at offset 0 is a weekend day.
EpsilonDone == pureOut.op = "epsilon"

\* \div and % of TLA+ are the floored division and the non-negative modulo
LocalDayOfWeek ==
    (((pureIn.ctx.current_timestamp + 1000 * pureIn.ctx.timezone_offset) \div 86400000) + 4) % 7

C21_WeekendByLocalDay ==
    EpsilonDone =>
        /\ pureOut.day_of_week = LocalDayOfWeek
        /\ pureOut.day_of_week \in 0..6
        /\ pureOut.f_wk = (IF LocalDayOfWeek >= 5 THEN pureIn.cfg.weekend_multiplier ELSE 1000)
        /\ pureOut.ret = pureOut.f_wk
        /\ (pureIn.ctx.current_timestamp = 82800000 /\ pureIn.ctx.timezone_offset = 0)
               => pureOut.f_wk = 1000
        /\ (pureIn.ctx.current_timestamp = 82800000 /\ pureIn.ctx.timezone_offset = 28800)
               => pureOut.f_wk = pureIn.cfg.weekend_multiplier
        /\ (pureIn.ctx.current_timestamp = 2 * 86400000 /\ pureIn.ctx.timezone_offset = 0)
               => pureOut.f_wk = pureIn.cfg.weekend_multiplier

\* a local time before the epoch, not at midnight, on a Friday: 1969-12-25 23:00
\* UTC seen at +8 h is Friday 1969-12-26 07:00
C21_Witness ==
    /\ EpsilonDone
    /\ pureIn.ctx.current_timestamp = -7 * 86400000 + 82800000
    /\ pureIn.ctx.timezone_offset = 28800
    /\ pureIn.cfg.weekend_multiplier = 2000
    /\ pureOut.day_of_week = 5
    /\ pureOut.ret = 2000

\* ------------------------------------------------------------------
\* C22: compute_tier_price returns base unchanged for every buy and for every
\* sell of at most 500; for a sell of q > 500 it returns
\* base * (min(q, 500) + 0.85 * min(q - 500, 1500) + 0.60 * max(q - 2000, 0)) / q,
\* which for base > 0 lies strictly between 0.6 * base and base and never
\* increases as q grows; base = 10, q = 1000 gives 9.25.
TierDone == pureOut.op = "tier"

\* the claim's weighted quantity, in twentieths
WeightedQuantity(q) == 20 * Min(q, 500) + 17 * Min(q - 500, 1500) + 12 * Max(q - 2000, 0)

\* the price x is at most the price y (denominators positive)
PriceLe(x, y) == x.num * y.den <= y.num * x.den

C22_TierPrice ==
    TierDone =>
        LET base == pureIn.base
            q == pureIn.qty
            price == pureOut.ret
        IN  /\ price.den > 0
            /\ (~pureIn.is_sell \/ q <= 500) => price.num = 20 * base * price.den
            /\ (pureIn.is_sell /\ q > 500) =>
                   /\ price.num * q = base * WeightedQuantity(q) * price.den
                   /\ base > 0 => /\ 12 * base * price.den < price.num
                                  /\ price.num < 20 * base * price.den
            /\ (pureIn.is_sell /\ base > 0) =>
                   \A q2 \in Quantities :
                       q2 >= q => PriceLe(compute_tier_price_internal(base, q2, TRUE), price)
            /\ (pureIn.is_sell /\ base = 10 /\ q = 1000) => 100 * price.num = 925 * 20 * price.den

\* a sell that reaches the third tier: 3000 at base 10 is 500 at 10, 1500 at 8.5
\* and 1000 at 6, a unit price of 7.916...
C22_Witness ==
    /\ TierDone /\ pureIn.is_sell /\ pureIn.base = MaxBase /\ pureIn.qty = MaxQty
    /\ pureOut.ret.den = MaxQty
    /\ pureOut.ret.num = MaxBase * (20 * 500 + 17 * 1500 + 12 * (MaxQty - 2000))

\* ------------------------------------------------------------------
\* C23: compute_transfer_check with a null context pointer returns a blocked
\* result (is_blocked = 1, final_tax = 0) with code 671; with a context and a
\* null config pointer a blocked result with code 672; with both null code 671;
\* in none of these cases is a pointer read through.
TransferReturned == result # NoResult

C23_NullPointers ==
    TransferReturned =>
        /\ xfer.ctx = NullPtr =>
               result = [final_tax |-> 0, is_blocked |-> 1, warning_code |-> 671]
        /\ (xfer.ctx # NullPtr /\ xfer.cfg = NullPtr) =>
               result = [final_tax |-> 0, is_blocked |-> 1, warning_code |-> 672]
        /\ (xfer.ctx = NullPtr \/ xfer.cfg = NullPtr) => pureOut.derefs = {}

\* both pointers null
C23_Witness ==
    /\ TransferReturned
    /\ xfer.ctx = NullPtr /\ xfer.cfg = NullPtr
    /\ result.warning_code = 671 /\ result.is_blocked = 1
    /\ pureOut.derefs = {}

\* ------------------------------------------------------------------
\* C24: every boundary call made before any successful init_db returns its
\* sentinel without blocking or panicking: query_neff returns 0, shutdown_db
\* returns -1, log_event returns with the event counted in total and in dropped;
\* and shutdown_db returns 0 only while a writer is able to receive the sentinel.
\* Returns(t): this step completes a call of t.
Returns(t) == ret'[t] # ret[t]

\* the writer that reads the log channel is inside its receive loop
WriterReceiving ==
    logSender # NoThread /\ wpc[logSender] \in {"recv", "try_recv", "flush"}

\* t waits for a pool connection that no call holds and none will bring back
Starved(t) ==
    /\ pc[t] \in {"query_recv", "load_recv"}
    /\ poolAvail = 0
    /\ \A u \in Threads : pc[u] \notin {"query_run", "load_run"}

BeforeInitStep ==
    \A t \in Threads :
        /\ (Returns(t) /\ ~initDone') =>
               /\ ret'[t].op = "query" => (ret'[t].sum = <<>> /\ ret'[t].status # "panic")
               /\ ret'[t].op = "shutdown" => ret'[t].code = -1
               /\ ret'[t].op = "log" => (dropped' = dropped + 1 /\ total' >= dropped')
        /\ ~initDone' => ~Starved(t)'
        /\ (Returns(t) /\ ret'[t].op = "shutdown" /\ ret'[t].code = 0) => WriterReceiving

C24_SentinelsBeforeInit == [][BeforeInitStep]_vars

\* ------------------------------------------------------------------
\* C25: every query_neff call runs to completion: under fair scheduling a call
\* that waits for a pool connection eventually returns, in every state of the
\* reader pool reachable after init_db returned 0 (a pool that got fewer than 4
\* connections or none, a pool that lost a connection to an earlier failed call).
C25_QueryReturns ==
    \A t \in Threads : (initDone /\ pc[t] = "query_recv") ~> (pc[t] = "idle")

\* ------------------------------------------------------------------
\* C26: no log event is lost silently: every event log_event was called for is
\* in the end appended to the cold store or counted in DROPPED_LOGS, so once
\* the writer has exited after a shutdown (and no log_event call is still
\* running), total = written + dropped, the events enqueued behind the sentinel
\* or still in the channel when the writer stopped included.
WriterExited == logSender # NoThread /\ wpc[logSender] = "exited"

\* rows the writer appended to the (initially empty) table
written == RunsLen(cold)

C26_NothingLostSilently ==
    (shutOk /\ WriterExited /\ \A t \in Threads : pc[t] = "idle")
    => total = written + dropped

\* ------------------------------------------------------------------
\* C28: only shutdown_db can stop the cold writer: no log_event call, whatever
\* timestamp the host passes (ts = -1 included), makes the writer thread leave
\* its loop or makes it skip persisting an event it has dequeued.
\* Dequeues(w): this step is a receive of writer w that takes a message.
Dequeues(w) ==
    /\ wpc[w] \in {"recv", "try_recv"}
    /\ chan[w] # <<>>
    /\ chan'[w] = Tail(chan[w])

\* the message was enqueued by log_event (its uuid is the caller's)
FromLogEvent(ev) == ev.uuid \in Threads

WriterKeepsLogEvents ==
    \A w \in Threads :
        (Dequeues(w) /\ FromLogEvent(Head(chan[w])))
        => /\ buf'[w] = Append(buf[w], Head(chan[w]))
           /\ wpc'[w] # "final"

C28_OnlyShutdownStops == [][WriterKeepsLogEvents]_vars

\* ------------------------------------------------------------------
\* C27: for any interleaving of concurrent or repeated init_db calls the
\* process ends up with at most one running cold writer, one reader pool and
\* one log sender, and the hot history holds each cold-store record of the
\* last 90 days at most once (hydration happens once), in ascending order of
\* timestamp.
\* the rows an earlier run left in the table carry the uuid "old" and a ts that
\* no log_event of the model uses
RECURSIVE CountTs(_, _)
CountTs(rs, ts) ==
    IF rs = <<>> THEN 0
    ELSE (IF Head(rs).ts = ts THEN Head(rs).n ELSE 0) + CountTs(Tail(rs), ts)

OldRowsOf(rows) == { i \in 1..Len(rows) : rows[i].uuid = "old" }

HydratedOnce ==
    \A i \in OldRowsOf(cold) : CountTs(hist, cold[i].ts) <= CountTs(cold, cold[i].ts)

HydratedAscending ==
    \A i, j \in 1..Len(hist) :
        (i < j /\ \E k, l \in OldRowsOf(cold) : hist[i].ts = cold[k].ts /\ hist[j].ts = cold[l].ts)
        => hist[i].ts < hist[j].ts

\* writers that own a receiver some sender can still reach
LiveWriters == { w \in Threads : wpc[w] \notin {"none", "exited"} /\ txLive[w] }

C27_InitOnce ==
    /\ HydratedOnce
    /\ HydratedAscending
    /\ (\A t \in Threads : pc[t] = "idle") => Cardinality(LiveWriters) <= 1

\* ------------------------------------------------------------------
\* C29: each log_event boundary call with non-null strings adds exactly one
\* record to the hot history, holding ts and the magnitude of the trade, before
\* the event is offered to the cold-writer queue and whether or not the queue
\* accepts it; absent a prune the hot history grows by exactly one per call.
\* the record the claim expects for the event of t's call
MagnitudeEntry(t) == [ts |-> cur'[t].ev.ts, amount |-> Abs(cur'[t].ev.delta)]

OneMagnitudeRecordPerCall ==
    \A t \in Threads :
        /\ AppendStep(t) =>
               /\ RunsLen(hist) + 1 <= HIST_LIMIT => RunsLen(hist') = RunsLen(hist) + 1
               /\ RunsAt(hist', RunsLen(hist')) = MagnitudeEntry(t)
               /\ chan' = chan
        /\ (pc[t] = "log_send" /\ pc'[t] = "idle") => hist' = hist

C29_OneRecordPerCall == [][OneMagnitudeRecordPerCall]_vars
=============================================================================
